---- MODULE Spec2Model ----
(***************************************************************************)
(* Connector synchronization subsystem of SaultoMVP1:                      *)
(*   python_connectors/simple_connector_manager.py  SimpleConnectorManager *)
(*   python_connectors/simple_base_connector.py     SimpleBaseConnector    *)
(*   python_connectors/simple_salesforce_connector.py                      *)
(*   python_connectors/postgres_loader.py           PostgresLoader         *)
(*   python_connectors/{jira,simple_harvest,simple_quickbooks,simple_zoho} *)
(*                                                                         *)
(* Strings the code formats from a template and a list are modelled as a   *)
(* record [kind |-> <template>, names |-> <the list>], so that "the        *)
(* message names exactly these keys / tables" is a statement about that    *)
(* list.  Python's None is the value None below.                           *)
(***************************************************************************)
EXTENDS Integers, Sequences, FiniteSets, TLC

VARIABLES
    active_connectors,   \* SimpleConnectorManager.active_connectors: key -> instance
    data_sources,        \* rows of the data_sources table: key -> credentials or None
    DATABASE_URL,        \* whether os.getenv("DATABASE_URL") is set
    POSTGRES_AVAILABLE,  \* simple_base_connector.POSTGRES_AVAILABLE (import of the loader worked)
    store,               \* the analytics store: schemas and tables with their row counts
    last,                \* the last call made on the manager / loader and what it returned
    page,                \* pagination scenario: mock API and the paginator's result
    inc                  \* incremental-extraction scenario: source rows and the two extractions

vars == <<active_connectors, data_sources, DATABASE_URL, POSTGRES_AVAILABLE, store, last, page, inc>>

----------------------------------------------------------------------------
(* Bounds of the model *)

MaxTenants == 1
MaxTables == 3
MaxRecords == 2
MaxMissing == 1
MaxStored == 1
MgrMaxTables == 1
MaxStoreRows == 2
MaxPages == 3
MaxSourceRows == 3
MaxNameLen == 3
MaxCells == 2
MaxBatch == 2
MaxRequests == 4
SalesforceBatch == 1000

----------------------------------------------------------------------------
(* Values *)

None == "<None>"

\* an optional list argument: Python's None, or the list given
NoList == [given |-> FALSE, list |-> <<>>]
Given(list) == [given |-> TRUE, list |-> list]

\* an optional message: Python's None, or a template with the names it lists
NoMessage == [kind |-> "<None>", names |-> <<>>]
Message(kind) == [kind |-> kind, names |-> <<>>]

\* a store operation that names no table
NoTable == <<>>

\* Python truthiness of a credential value / a list
Falsy(v) == v = None \/ v = ""

Tenants == 1..MaxTenants

\* SimpleConnectorManager.CONNECTOR_REGISTRY: type name -> class
CONNECTOR_REGISTRY ==
    [salesforce |-> "SimpleSalesforceConnector", jira |-> "SimpleJiraConnector"]

RegisteredTypes == DOMAIN CONNECTOR_REGISTRY

\* connector types a caller may pass: the registered ones and an unknown one
ConnectorTypes == RegisteredTypes \cup {"hubspot"}

\* connector_key = f"{company_id}_{connector_type}"
connector_key(company_id, connector_type) == <<company_id, connector_type>>

\* sequence helpers
RECURSIVE SeqSum(_)
SeqSum(s) == IF s = <<>> THEN 0 ELSE Head(s) + SeqSum(Tail(s))

Range(s) == {s[i] : i \in DOMAIN s}

SeqsUpTo(S, n) == UNION {[1..k -> S] : k \in 0..n}

----------------------------------------------------------------------------
(* Connector classes *)

\* connector_name property
connector_name(cls) ==
    IF cls = "SimpleSalesforceConnector" THEN "salesforce" ELSE "jira"

\* SimpleSalesforceConnector.required_credentials
SalesforceRequired ==
    <<"client_id", "client_secret", "username", "password", "security_token", "instance_url">>

\* SimpleJiraConnector.required_credentials (simple_jira_connector.py is not in the tree)
JiraRequired == <<"server_url", "username", "api_token">>

required_credentials(cls) ==
    IF cls = "SimpleSalesforceConnector" THEN SalesforceRequired ELSE JiraRequired

\* default_objects of each class, cut to the first MaxDefault names
MaxDefault == 3

SalesforceDefaultObjects ==
    <<"Account", "Contact", "Opportunity", "Lead", "Case", "Task", "Event", "User">>

JiraDefaultObjects == <<"issues", "projects", "users", "workflows">>

default_objects(cls) ==
    LET all == IF cls = "SimpleSalesforceConnector" THEN SalesforceDefaultObjects
               ELSE JiraDefaultObjects
    IN  SubSeq(all, 1, MaxDefault)

\* get_available_tables(): the static list; it does not raise
get_available_tables(cls) == [raised |-> FALSE, tables |-> default_objects(cls)]

\* str.lower() on the table names of the model
Lower(name) ==
    CASE name = "Account" -> "account"
      [] name = "Contact" -> "contact"
      [] name = "Opportunity" -> "opportunity"
      [] name = "Lead" -> "lead"
      [] name = "Case" -> "case"
      [] name = "Task" -> "task"
      [] name = "Event" -> "event"
      [] name = "User" -> "user"
      [] OTHER -> name

\* PostgresLoader.__init__: raises ValueError without DATABASE_URL
PostgresLoader_init(dburl) ==
    IF dburl THEN [raised |-> FALSE, exc |-> ""]
    ELSE [raised |-> TRUE, exc |-> "DATABASE_URL environment variable is required"]

\* SimpleBaseConnector.__init__: builds a PostgresLoader when POSTGRES_AVAILABLE
SimpleBaseConnector_init(pg, dburl) ==
    IF pg THEN PostgresLoader_init(dburl) ELSE [raised |-> FALSE, exc |-> ""]

\* SimpleSalesforceConnector.__init__: credentials.get("instance_url", "").rstrip('/')
\* raises AttributeError when the key is present with the value None
SimpleSalesforceConnector_init(credentials, pg, dburl) ==
    LET base == SimpleBaseConnector_init(pg, dburl) IN
    IF base.raised THEN base
    ELSE IF "instance_url" \in DOMAIN credentials /\ credentials["instance_url"] = None
         THEN [raised |-> TRUE, exc |-> "'NoneType' object has no attribute 'rstrip'"]
         ELSE [raised |-> FALSE, exc |-> ""]

\* connector_class(company_id, credentials, config)
new_connector(cls, company_id, credentials, pg, dburl) ==
    LET r == IF cls = "SimpleSalesforceConnector"
             THEN SimpleSalesforceConnector_init(credentials, pg, dburl)
             ELSE SimpleBaseConnector_init(pg, dburl)
    IN  [raised |-> r.raised, exc |-> r.exc,
         inst |-> [cls |-> cls, company_id |-> company_id, credentials |-> credentials]]

\* What the remote API does when probed by test_connection
ProbeOutcomes(cls) ==
    IF cls = "SimpleSalesforceConnector" THEN {"ok", "auth_fail", "request_fail"}
    ELSE {"ok", "fail"}

\* test_connection(): every exception is caught and turned into False
test_connection(cls, api) == [raised |-> FALSE, value |-> (api = "ok")]

\* the loop of validate_credentials that collects the missing keys, in order
missing_creds(inst) ==
    SelectSeq(required_credentials(inst.cls),
              LAMBDA cred : cred \notin DOMAIN inst.credentials
                            \/ Falsy(inst.credentials[cred]))

\* SimpleBaseConnector.validate_credentials
validate_credentials(inst, api) ==
    LET missing == missing_creds(inst) IN
    IF missing # <<>>
    THEN [valid |-> FALSE, probed |-> FALSE,
          message |-> [kind |-> "Missing credentials", names |-> missing]]
    ELSE LET t == test_connection(inst.cls, api) IN
         [valid |-> ~t.raised /\ t.value, probed |-> TRUE,
          message |-> [kind |-> IF t.raised THEN "Error validating credentials"
                                ELSE IF t.value THEN "Credentials validated successfully"
                                ELSE "Failed to authenticate with API",
                       names |-> <<>>]]

----------------------------------------------------------------------------
(* Extraction, load and the per-table sync *)

\* What the environment does to one table of a sync: how the remote API answers
\* the extraction (ext, with n records when it answers) and what the store does
\* to the load that follows (load).
ExtractionFailures(cls) ==
    IF cls = "SimpleSalesforceConnector" THEN {"api_error", "auth_fail"} ELSE {"raise"}

LoadOutcomes == {"ok", "connect", "insert"}

EnvOutcomes(cls) ==
    {[ext |-> e, n |-> 0, load |-> "ok"] : e \in ExtractionFailures(cls) \cup {"ok"}}
    \cup {[ext |-> "ok", n |-> k, load |-> l] : k \in 1..MaxRecords, l \in LoadOutcomes}

\* the records an API answer carries
Records(n) == [i \in 1..n |-> i]

\* SimpleSalesforceConnector.extract_data: make_soql_request returns [] when
\* authentication cannot be obtained or a request fails, and extract_data itself
\* catches every exception and returns []
SimpleSalesforceConnector_extract_data(o) ==
    [raised |-> FALSE, data |-> IF o.ext = "ok" THEN Records(o.n) ELSE <<>>]

\* SimpleBaseConnector.extract_data (abstract): a subclass returns a list or raises
extract_data(cls, o) ==
    IF cls = "SimpleSalesforceConnector" THEN SimpleSalesforceConnector_extract_data(o)
    ELSE IF o.ext = "raise" THEN [raised |-> TRUE, data |-> <<>>]
    ELSE [raised |-> FALSE, data |-> Records(o.n)]

\* PostgresLoader.get_analytics_schema_name
get_analytics_schema_name(company_id) == <<"analytics_company", company_id>>

\* postgres_table_name = f"{self.connector_name}_{table_name}".lower()
postgres_table_name(cls, table_name) == <<connector_name(cls), Lower(table_name)>>

\* One statement sent to the store (or a request for the connection)
StoreOp(op, company_id, table, rows, source_system) ==
    [op |-> op, schema |-> get_analytics_schema_name(company_id), table |-> table,
     rows |-> rows, source_system |-> source_system, company_id |-> company_id]

\* a load_data that asks for the connection and the schema before it looks at the list
load_data_connecting_first(table_name, data, source_system, company_id, outcome) ==
    LET gc == StoreOp("get_connection", company_id, NoTable, 0, source_system)
        cs == StoreOp("CREATE SCHEMA IF NOT EXISTS", company_id, NoTable, 0, source_system)
    IN  [raised |-> FALSE, ret |-> Len(data), ops |-> <<gc, cs>>]

\* PostgresLoader.load_data: returns 0 at once for an empty list; otherwise
\* ensure_analytics_schema, create_table_if_not_exists, then one executemany.
\* A store error is logged and re-raised.  ops lists what reached the store.
load_data(table_name, data, source_system, company_id, outcome) ==
    LET gc == StoreOp("get_connection", company_id, NoTable, 0, source_system)
        cs == StoreOp("CREATE SCHEMA IF NOT EXISTS", company_id, NoTable, 0, source_system)
        ct == StoreOp("CREATE TABLE IF NOT EXISTS", company_id, table_name, 0, source_system)
        ins == StoreOp("INSERT", company_id, table_name, Len(data), source_system)
    IN  IF data = <<>> THEN [raised |-> FALSE, ret |-> 0, ops |-> <<>>]
        ELSE IF outcome = "connect" THEN [raised |-> TRUE, ret |-> 0, ops |-> <<gc>>]
        ELSE IF outcome = "insert"
             THEN [raised |-> TRUE, ret |-> 0, ops |-> <<gc, cs, gc, ct, gc>>]
        ELSE [raised |-> FALSE, ret |-> Len(data), ops |-> <<gc, cs, gc, ct, gc, ins>>]

\* SimpleBaseConnector.sync_table
sync_table(inst, table_name, o, pg) ==
    LET x == extract_data(inst.cls, o) IN
    IF x.raised
    THEN [success |-> FALSE, records |-> 0, ops |-> <<>>, loader_calls |-> 0]
    ELSE IF x.data = <<>>
    THEN [success |-> TRUE, records |-> 0, ops |-> <<>>, loader_calls |-> 0]
    ELSE IF pg
    THEN LET l == load_data(postgres_table_name(inst.cls, table_name), x.data,
                            connector_name(inst.cls), inst.company_id, o.load)
         IN  IF l.raised
             THEN [success |-> TRUE, records |-> Len(x.data), ops |-> l.ops, loader_calls |-> 1]
             ELSE [success |-> TRUE, records |-> l.ret, ops |-> l.ops, loader_calls |-> 1]
    ELSE [success |-> TRUE, records |-> Len(x.data), ops |-> <<>>, loader_calls |-> 0]

\* SyncResult, with what the sync sent to the store
SyncResult(success, records_synced, tables_synced, error_message, ops, loader_calls) ==
    [success |-> success, records_synced |-> records_synced,
     tables_synced |-> tables_synced, error_message |-> error_message,
     ops |-> ops, loader_calls |-> loader_calls]

\* a loop that reports every table as synced, whatever sync_table answered
RECURSIVE full_sync_loop_all_synced(_, _, _, _, _, _)
full_sync_loop_all_synced(inst, tables, outs, pg, i, acc) ==
    IF i > Len(tables) THEN acc
    ELSE LET r == sync_table(inst, tables[i], outs[i], pg) IN
         full_sync_loop_all_synced(inst, tables, outs, pg, i + 1,
            [total_records |-> acc.total_records + r.records,
             synced_tables |-> Append(acc.synced_tables, tables[i]),
             failed_tables |-> IF r.success THEN acc.failed_tables
                               ELSE Append(acc.failed_tables, tables[i]),
             ops |-> acc.ops \o r.ops,
             loader_calls |-> Append(acc.loader_calls, r.loader_calls)])

\* the for loop of full_sync over tables[i..], with the accumulators of the loop
RECURSIVE full_sync_loop(_, _, _, _, _, _)
full_sync_loop(inst, tables, outs, pg, i, acc) ==
    IF i > Len(tables) THEN acc
    ELSE LET r == sync_table(inst, tables[i], outs[i], pg) IN
         full_sync_loop(inst, tables, outs, pg, i + 1,
            [total_records |-> IF r.success THEN acc.total_records + r.records
                               ELSE acc.total_records,
             synced_tables |-> IF r.success THEN Append(acc.synced_tables, tables[i])
                               ELSE acc.synced_tables,
             failed_tables |-> IF r.success THEN acc.failed_tables
                               ELSE Append(acc.failed_tables, tables[i]),
             ops |-> acc.ops \o r.ops,
             loader_calls |-> Append(acc.loader_calls, r.loader_calls)])

\* a SyncResult that reports success whatever the loop collected
full_sync_result_ignoring_failures(acc) ==
    SyncResult(TRUE, acc.total_records, acc.synced_tables, NoMessage, acc.ops, acc.loader_calls)

\* the SyncResult full_sync builds from the accumulators
full_sync_result(acc) ==
    SyncResult(Len(acc.failed_tables) = 0, acc.total_records, acc.synced_tables,
               IF acc.failed_tables # <<>>
               THEN [kind |-> "Failed to sync tables", names |-> acc.failed_tables]
               ELSE NoMessage,
               acc.ops, acc.loader_calls)

\* SimpleBaseConnector.full_sync; tables is None (get_available_tables() is used) or a list
full_sync(inst, tables, outs, pg) ==
    LET gat == get_available_tables(inst.cls) IN
    IF ~tables.given /\ gat.raised
    THEN SyncResult(FALSE, 0, <<>>, Message("Full sync failed"), <<>>, <<>>)
    ELSE LET ts == IF ~tables.given THEN gat.tables ELSE tables.list IN
         full_sync_result(
             full_sync_loop(inst, ts, outs, pg, 1,
                 [total_records |-> 0, synced_tables |-> <<>>, failed_tables |-> <<>>,
                  ops |-> <<>>, loader_calls |-> <<>>]))

----------------------------------------------------------------------------
(* SimpleConnectorManager: the operations as functions of the cache and of what
   the environment (credential store, remote API, analytics store) answers *)

\* SimpleConnectorManager._load_credentials_from_database: None when DATABASE_URL
\* is unset, when the store cannot be reached (db = "down": the exception is
\* caught), when there is no row or the row's credentials are empty
_load_credentials_from_database(ds, dburl, db, company_id, connector_type) ==
    LET key == connector_key(company_id, connector_type) IN
    IF ~dburl \/ db = "down" \/ key \notin DOMAIN ds \/ DOMAIN ds[key] = {}
    THEN [found |-> FALSE, credentials |-> <<>>, queried |-> dburl]
    ELSE [found |-> TRUE, credentials |-> ds[key], queried |-> TRUE]

\* a create_connector that drops the cached instance of the key when it fails
create_connector_evicting(cache, connector_type, company_id, credentials, api, pg, dburl) ==
    LET key == connector_key(company_id, connector_type)
        c == new_connector(CONNECTOR_REGISTRY[connector_type], company_id,
                           credentials, pg, dburl)
        v == validate_credentials(c.inst, api)
    IN  IF connector_type \notin DOMAIN CONNECTOR_REGISTRY
        THEN [ok |-> FALSE, cache |-> cache, probed |-> FALSE,
              message |-> [kind |-> "Unknown connector type", names |-> <<connector_type>>]]
        ELSE IF c.raised \/ ~v.valid
        THEN [ok |-> FALSE, cache |-> [k \in DOMAIN cache \ {key} |-> cache[k]],
              probed |-> ~c.raised /\ v.probed, message |-> v.message]
        ELSE [ok |-> TRUE, probed |-> v.probed,
              cache |-> [k \in DOMAIN cache \cup {key} |->
                            IF k = key THEN c.inst ELSE cache[k]],
              message |-> Message("Connector created successfully")]

\* a test_connector that reports a failed probe as a missing connector
test_connector_not_found(g, api) ==
    IF g.found /\ api = "ok"
    THEN [raised |-> FALSE, ok |-> TRUE, message |-> Message("Connection test successful")]
    ELSE [raised |-> FALSE, ok |-> FALSE, message |-> Message("Connector not found")]

\* a create_connector that stores the instance before it validates it
create_connector_caching_first(cache, connector_type, company_id, credentials, api, pg, dburl) ==
    IF connector_type \notin DOMAIN CONNECTOR_REGISTRY
    THEN [ok |-> FALSE, cache |-> cache, probed |-> FALSE,
          message |-> [kind |-> "Unknown connector type", names |-> <<connector_type>>]]
    ELSE LET c == new_connector(CONNECTOR_REGISTRY[connector_type], company_id,
                                credentials, pg, dburl)
             v == validate_credentials(c.inst, api)
         IN  [ok |-> ~c.raised /\ v.valid, probed |-> v.probed,
              cache |-> [k \in DOMAIN cache
                              \cup {connector_key(company_id, connector_type)} |->
                         IF k = connector_key(company_id, connector_type)
                         THEN c.inst ELSE cache[k]],
              message |-> v.message]

\* SimpleConnectorManager.create_connector
create_connector(cache, connector_type, company_id, credentials, api, pg, dburl) ==
    IF connector_type \notin DOMAIN CONNECTOR_REGISTRY
    THEN [ok |-> FALSE, cache |-> cache, probed |-> FALSE,
          message |-> [kind |-> "Unknown connector type", names |-> <<connector_type>>]]
    ELSE LET c == new_connector(CONNECTOR_REGISTRY[connector_type], company_id,
                                credentials, pg, dburl)
         IN  IF c.raised
             THEN [ok |-> FALSE, cache |-> cache, probed |-> FALSE,
                   message |-> [kind |-> "Failed to create connector",
                                names |-> <<connector_type, c.exc>>]]
             ELSE LET v == validate_credentials(c.inst, api) IN
                  IF ~v.valid
                  THEN [ok |-> FALSE, cache |-> cache, probed |-> v.probed,
                        message |-> v.message]
                  ELSE [ok |-> TRUE, probed |-> v.probed,
                        cache |-> [k \in DOMAIN cache
                                        \cup {connector_key(company_id, connector_type)} |->
                                   IF k = connector_key(company_id, connector_type)
                                   THEN c.inst ELSE cache[k]],
                        message |-> Message("Connector created successfully")]

\* a get_connector that reads the credential store whether or not the key is cached
get_connector_always_loading(cache, ds, company_id, connector_type, db, api, pg, dburl) ==
    LET key == connector_key(company_id, connector_type)
        l == _load_credentials_from_database(ds, dburl, db, company_id, connector_type)
    IN  IF key \in DOMAIN cache
        THEN [found |-> TRUE, inst |-> cache[key], cache |-> cache, hit |-> TRUE,
              queried |-> l.queried, probed |-> FALSE]
        ELSE [found |-> FALSE, inst |-> <<>>, cache |-> cache, hit |-> FALSE,
              queried |-> l.queried, probed |-> FALSE]

\* SimpleConnectorManager.get_connector: the cached instance, else an instance
\* rebuilt from the stored credentials (create_connector returns a tuple, which
\* is always true, so the cache is looked up again whatever it returned)
get_connector(cache, ds, company_id, connector_type, db, api, pg, dburl) ==
    LET key == connector_key(company_id, connector_type) IN
    IF key \in DOMAIN cache
    THEN [found |-> TRUE, inst |-> cache[key], cache |-> cache, hit |-> TRUE,
          queried |-> FALSE, probed |-> FALSE]
    ELSE LET l == _load_credentials_from_database(ds, dburl, db, company_id, connector_type) IN
         IF ~l.found
         THEN [found |-> FALSE, inst |-> <<>>, cache |-> cache, hit |-> FALSE,
               queried |-> l.queried, probed |-> FALSE]
         ELSE LET c == create_connector(cache, connector_type, company_id,
                                        l.credentials, api, pg, dburl)
              IN  [found |-> key \in DOMAIN c.cache,
                   inst |-> IF key \in DOMAIN c.cache THEN c.cache[key] ELSE <<>>,
                   cache |-> c.cache, hit |-> FALSE, queried |-> TRUE, probed |-> c.probed]

\* SimpleConnectorManager.test_connector
test_connector(g, api) ==
    IF ~g.found THEN [raised |-> FALSE, ok |-> FALSE, message |-> Message("Connector not found")]
    ELSE LET t == test_connection(g.inst.cls, api) IN
         IF t.raised
         THEN [raised |-> FALSE, ok |-> FALSE, message |-> Message("Connection test error")]
         ELSE IF t.value
         THEN [raised |-> FALSE, ok |-> TRUE, message |-> Message("Connection test successful")]
         ELSE [raised |-> FALSE, ok |-> FALSE, message |-> Message("Connection test failed")]

\* SimpleConnectorManager.get_connector_tables
get_connector_tables(g) ==
    IF ~g.found
    THEN [raised |-> FALSE, ok |-> FALSE, tables |-> <<>>, message |-> Message("Connector not found")]
    ELSE LET t == get_available_tables(g.inst.cls) IN
         IF t.raised
         THEN [raised |-> FALSE, ok |-> FALSE, tables |-> <<>>,
               message |-> Message("Failed to get tables")]
         ELSE [raised |-> FALSE, ok |-> TRUE, tables |-> t.tables, message |-> Message("")]

\* SimpleConnectorManager.sync_connector, after get_connector answered g
sync_connector(g, tables, outs, pg) ==
    IF ~g.found
    THEN SyncResult(FALSE, 0, <<>>, Message("Connector not found"), <<>>, <<>>)
    ELSE full_sync(g.inst, tables, outs, pg)

\* a remove_connector that answers but leaves the cached instance in place
remove_connector_keeping(cache, company_id, connector_type) ==
    [ret |-> connector_key(company_id, connector_type) \in DOMAIN cache, cache |-> cache]

\* SimpleConnectorManager.remove_connector
remove_connector(cache, company_id, connector_type) ==
    LET key == connector_key(company_id, connector_type) IN
    IF key \in DOMAIN cache
    THEN [ret |-> TRUE, cache |-> [k \in DOMAIN cache \ {key} |-> cache[k]]]
    ELSE [ret |-> FALSE, cache |-> cache]

\* SimpleConnectorManager.get_connector_requirements: a classmethod with no
\* try/except; it builds connector_class(0, {}, {})
get_connector_requirements(connector_type, pg, dburl) ==
    IF connector_type \notin DOMAIN CONNECTOR_REGISTRY
    THEN [raised |-> FALSE, found |-> FALSE, required_credentials |-> <<>>]
    ELSE LET c == new_connector(CONNECTOR_REGISTRY[connector_type], 0, <<>>, pg, dburl) IN
         IF c.raised
         THEN [raised |-> TRUE, found |-> FALSE, required_credentials |-> <<>>]
         ELSE [raised |-> FALSE, found |-> TRUE,
               required_credentials |-> required_credentials(c.inst.cls)]

\* SimpleConnectorManager.get_connector_status, after get_connector answered g
\* (test_connector and get_connector_tables then find the instance in the cache)
get_connector_status(g, api) ==
    IF ~g.found THEN [raised |-> FALSE, exists |-> FALSE, status |-> "not_found",
                      table_count |-> 0]
    ELSE LET t == test_connector(g, api)
             tb == get_connector_tables(g)
         IN  [raised |-> FALSE, exists |-> TRUE,
              status |-> IF t.ok THEN "connected" ELSE "error",
              table_count |-> IF tb.ok THEN Len(tb.tables) ELSE 0]

----------------------------------------------------------------------------
(* Inputs the callers and the environment may supply *)

CredValues == {None, "", "v"}

\* every credential map over a subset of the required keys
CredMaps(req) == UNION {[S -> CredValues] : S \in SUBSET Range(req)}

\* the required keys a map lacks or holds empty
MissingKeys(req, c) == {k \in Range(req) : k \notin DOMAIN c \/ Falsy(c[k])}

SalesforceCredInputs ==
    {c \in CredMaps(SalesforceRequired) :
        Cardinality(MissingKeys(SalesforceRequired, c)) <= MaxMissing}

JiraCredInputs ==
    {c \in CredMaps(JiraRequired) : Cardinality(MissingKeys(JiraRequired, c)) <= MaxMissing}

ValidCredentials(req) == [k \in Range(req) |-> "v"]

CredInputs(connector_type) ==
    IF connector_type = "salesforce" THEN SalesforceCredInputs
    ELSE IF connector_type = "jira" THEN JiraCredInputs
    ELSE {ValidCredentials(JiraRequired)}

\* credentials a row of data_sources may hold: a complete map, or one that
\* lacks the first required key
StoredCredentials(connector_type) ==
    LET req == required_credentials(CONNECTOR_REGISTRY[connector_type]) IN
    {ValidCredentials(req), [k \in Range(req) \ {req[1]} |-> "v"]}

\* the contents of data_sources: at most MaxStored rows
DataSourcesInputs ==
    {ds \in UNION {[S -> UNION {StoredCredentials(t) : t \in RegisteredTypes}] :
                     S \in {S \in SUBSET (Tenants \X RegisteredTypes) : Cardinality(S) <= MaxStored}} :
        \A k \in DOMAIN ds : ds[k] \in StoredCredentials(k[2])}

\* the table names a caller passes for a connector type
TableNames(connector_type) ==
    IF connector_type \in RegisteredTypes
    THEN Range(default_objects(CONNECTOR_REGISTRY[connector_type]))
    ELSE {"Account"}

\* the tables argument of a sync: None, or a list of at most n names
TablesInputs(connector_type, n) ==
    {NoList} \cup {Given(l) : l \in SeqsUpTo(TableNames(connector_type), n)}

\* the number of tables a sync of this argument walks through
TablesLen(connector_type, tables) ==
    IF tables.given THEN Len(tables.list)
    ELSE IF connector_type \in RegisteredTypes
    THEN Len(default_objects(CONNECTOR_REGISTRY[connector_type]))
    ELSE 0

ClassOf(connector_type) ==
    IF connector_type \in RegisteredTypes THEN CONNECTOR_REGISTRY[connector_type]
    ELSE "SimpleJiraConnector"

\* the environment's answers a manager-level scenario draws from: the API fails,
\* answers with no record, or answers with one record while the analytics store
\* refuses the connection (so that the store stays as it is)
MgrOutcomes(connector_type) ==
    {o \in EnvOutcomes(ClassOf(connector_type)) : o.n = 0 \/ (o.n = 1 /\ o.load = "connect")}

\* what the credential store (db) and the remote API's probe (api) answer during a call
EnvInputs(connector_type) ==
    {[db |-> "down", api |-> "ok"]}
    \cup {[db |-> "up", api |-> a] : a \in ProbeOutcomes(ClassOf(connector_type))}

\* the analytics store: tables with their row counts
EmptyStore == [schemas |-> {}, tables |-> <<>>]

ApplyOp(st, op) ==
    IF op.op = "CREATE SCHEMA IF NOT EXISTS"
    THEN [st EXCEPT !.schemas = @ \cup {op.schema}]
    ELSE IF op.op = "CREATE TABLE IF NOT EXISTS"
    THEN IF <<op.schema, op.table>> \in DOMAIN st.tables THEN st
         ELSE [st EXCEPT !.tables = [t \in DOMAIN st.tables \cup {<<op.schema, op.table>>} |->
                                      IF t \in DOMAIN st.tables THEN st.tables[t] ELSE 0]]
    ELSE IF op.op = "INSERT"
    THEN [st EXCEPT !.tables[<<op.schema, op.table>>] = @ + op.rows]
    ELSE st

RECURSIVE ApplyOps(_, _)
ApplyOps(st, ops) ==
    IF ops = <<>> THEN st ELSE ApplyOps(ApplyOp(st, Head(ops)), Tail(ops))

----------------------------------------------------------------------------
(* The manager as a state machine: one action per public operation *)

NoCall == [op |-> "none", raised |-> FALSE]

Init ==
    /\ active_connectors = <<>>
    /\ data_sources \in DataSourcesInputs
    /\ DATABASE_URL \in BOOLEAN
    /\ POSTGRES_AVAILABLE \in BOOLEAN
    /\ store = EmptyStore
    /\ last = NoCall
    /\ page = NoCall
    /\ inc = NoCall

Get(company_id, connector_type, e) ==
    get_connector(active_connectors, data_sources, company_id, connector_type,
                  e.db, e.api, POSTGRES_AVAILABLE, DATABASE_URL)

CreateConnector ==
    \E connector_type \in ConnectorTypes, company_id \in Tenants :
    \E credentials \in CredInputs(connector_type),
       api \in ProbeOutcomes(ClassOf(connector_type)) :
        LET r == create_connector(active_connectors, connector_type, company_id,
                                  credentials, api, POSTGRES_AVAILABLE, DATABASE_URL)
        IN  /\ active_connectors' = r.cache
            /\ last' = [op |-> "create_connector", company_id |-> company_id,
                        connector_type |-> connector_type, raised |-> FALSE,
                        credentials |-> credentials, ok |-> r.ok, message |-> r.message,
                        probed |-> r.probed,
                        cached |-> r.cache # active_connectors]
            /\ UNCHANGED <<data_sources, DATABASE_URL, POSTGRES_AVAILABLE, store, page, inc>>

GetConnector ==
    \E connector_type \in ConnectorTypes, company_id \in Tenants :
    \E e \in EnvInputs(connector_type) :
        LET g == Get(company_id, connector_type, e)
        IN  /\ active_connectors' = g.cache
            /\ last' = [op |-> "get_connector", company_id |-> company_id,
                        connector_type |-> connector_type, raised |-> FALSE,
                        found |-> g.found, hit |-> g.hit, queried |-> g.queried,
                        probed |-> g.probed]
            /\ UNCHANGED <<data_sources, DATABASE_URL, POSTGRES_AVAILABLE, store, page, inc>>

TestConnector ==
    \E connector_type \in ConnectorTypes, company_id \in Tenants :
    \E e \in EnvInputs(connector_type) :
        LET g == Get(company_id, connector_type, e)
            r == test_connector(g, e.api)
        IN  /\ active_connectors' = g.cache
            /\ last' = [op |-> "test_connector", company_id |-> company_id,
                        connector_type |-> connector_type, raised |-> r.raised,
                        ok |-> r.ok, message |-> r.message, hit |-> g.hit]
            /\ UNCHANGED <<data_sources, DATABASE_URL, POSTGRES_AVAILABLE, store, page, inc>>

GetConnectorTables ==
    \E connector_type \in ConnectorTypes, company_id \in Tenants :
    \E e \in EnvInputs(connector_type) :
        LET g == Get(company_id, connector_type, e)
            r == get_connector_tables(g)
        IN  /\ active_connectors' = g.cache
            /\ last' = [op |-> "get_connector_tables", company_id |-> company_id,
                        connector_type |-> connector_type, raised |-> r.raised,
                        ok |-> r.ok, tables |-> r.tables, message |-> r.message]
            /\ UNCHANGED <<data_sources, DATABASE_URL, POSTGRES_AVAILABLE, store, page, inc>>

GetConnectorStatus ==
    \E connector_type \in ConnectorTypes, company_id \in Tenants :
    \E e \in EnvInputs(connector_type) :
        LET g == Get(company_id, connector_type, e)
            r == get_connector_status(g, e.api)
        IN  /\ active_connectors' = g.cache
            /\ last' = [op |-> "get_connector_status", company_id |-> company_id,
                        connector_type |-> connector_type, raised |-> r.raised,
                        exists |-> r.exists, status |-> r.status,
                        table_count |-> r.table_count]
            /\ UNCHANGED <<data_sources, DATABASE_URL, POSTGRES_AVAILABLE, store, page, inc>>

RemoveConnector ==
    \E connector_type \in ConnectorTypes, company_id \in Tenants :
        LET r == remove_connector(active_connectors, company_id, connector_type)
        IN  /\ active_connectors' = r.cache
            /\ last' = [op |-> "remove_connector", company_id |-> company_id,
                        connector_type |-> connector_type, raised |-> FALSE, ret |-> r.ret]
            /\ UNCHANGED <<data_sources, DATABASE_URL, POSTGRES_AVAILABLE, store, page, inc>>

GetConnectorRequirements ==
    \E connector_type \in ConnectorTypes :
        LET r == get_connector_requirements(connector_type, POSTGRES_AVAILABLE, DATABASE_URL)
        IN  /\ last' = [op |-> "get_connector_requirements",
                        connector_type |-> connector_type, raised |-> r.raised,
                        found |-> r.found, required_credentials |-> r.required_credentials]
            /\ UNCHANGED <<active_connectors, data_sources, DATABASE_URL, POSTGRES_AVAILABLE,
                           store, page, inc>>

SyncConnector ==
    \E connector_type \in ConnectorTypes, company_id \in Tenants :
    \E tables \in TablesInputs(connector_type, MgrMaxTables),
       o \in MgrOutcomes(connector_type), e \in EnvInputs(connector_type) :
        LET g == Get(company_id, connector_type, e)
            outs == [i \in 1..TablesLen(connector_type, tables) |-> o]
            r == sync_connector(g, tables, outs, POSTGRES_AVAILABLE)
        IN  /\ active_connectors' = g.cache
            /\ store' = ApplyOps(store, r.ops)
            /\ last' = [op |-> "sync_connector", company_id |-> company_id,
                        connector_type |-> connector_type, raised |-> FALSE,
                        tables |-> tables, outs |-> outs, db |-> e.db, api |-> e.api,
                        hit |-> g.hit,
                        follows_remove |-> /\ last.op = "remove_connector"
                                           /\ last.company_id = company_id
                                           /\ last.connector_type = connector_type,
                        removed |-> /\ last.op = "remove_connector"
                                    /\ last.company_id = company_id
                                    /\ last.connector_type = connector_type
                                    /\ last.ret,
                        result |-> r]
            /\ UNCHANGED <<data_sources, DATABASE_URL, POSTGRES_AVAILABLE, page, inc>>

\* str(company_id): the decimal digits of a non-negative number
RECURSIVE str(_)
str(n) ==
    LET digit == <<"0", "1", "2", "3", "4", "5", "6", "7", "8", "9">>[(n % 10) + 1] IN
    IF n < 10 THEN <<digit>> ELSE str(n \div 10) \o <<digit>>

\* the key as the string f"{company_id}_{connector_type}": the digits, the
\* underscore, and the type (a registry name, without an underscore) as one piece
key_string(k) == str(k[1]) \o <<"_", k[2]>>

\* key.startswith(prefix)
startswith(key, prefix) ==
    Len(key) >= Len(prefix) /\ SubSeq(key, 1, Len(prefix)) = prefix

\* key.split("_", 1)[1]: what follows the first underscore
split_1(key) ==
    LET i == CHOOSE j \in DOMAIN key : key[j] = "_" /\ \A h \in 1..(j - 1) : key[h] # "_"
    IN  key[i + 1]

\* a sync_all_connectors that leaves out the cached jira connectors
sync_all_connectors_skipping(cache, company_id, outs, pg) ==
    [t \in {k[2] : k \in {k \in DOMAIN cache : k[1] = company_id}} \ {"jira"} |->
        sync_connector([found |-> TRUE, inst |-> cache[connector_key(company_id, t)],
                        cache |-> cache, hit |-> TRUE, queried |-> FALSE, probed |-> FALSE],
                       NoList, outs[t], pg)]

\* the connector types cached for a tenant: the keys that start with
\* f"{company_id}_", each split at its first underscore
company_connectors(cache, company_id) ==
    {split_1(key_string(k)) :
        k \in {k \in DOMAIN cache : startswith(key_string(k), str(company_id) \o <<"_">>)}}

\* SimpleConnectorManager.sync_all_connectors: sync_connector(company_id, type) with
\* the default tables for every cached type of the tenant; outs[type] is what the
\* environment answers for the tables of that type
sync_all_connectors(cache, company_id, outs, pg) ==
    [t \in company_connectors(cache, company_id) |->
        sync_connector([found |-> TRUE, inst |-> cache[connector_key(company_id, t)],
                        cache |-> cache, hit |-> TRUE, queried |-> FALSE, probed |-> FALSE],
                       NoList, outs[t], pg)]

RECURSIVE AllOps(_, _)
AllOps(results, types) ==
    IF types = {} THEN <<>>
    ELSE LET t == CHOOSE x \in types : TRUE IN results[t].ops \o AllOps(results, types \ {t})

SyncAllConnectors ==
    \E company_id \in Tenants :
    \E os \in [RegisteredTypes -> UNION {MgrOutcomes(t) : t \in RegisteredTypes}] :
        /\ \A t \in RegisteredTypes : os[t] \in MgrOutcomes(t)
        /\ LET outs == [t \in RegisteredTypes |->
                           [i \in 1..TablesLen(t, NoList) |-> os[t]]]
               r == sync_all_connectors(active_connectors, company_id, outs, POSTGRES_AVAILABLE)
           IN  /\ store' = ApplyOps(store, AllOps(r, DOMAIN r))
               /\ last' = [op |-> "sync_all_connectors", company_id |-> company_id,
                           raised |-> FALSE, results |-> r]
               /\ UNCHANGED <<active_connectors, data_sources, DATABASE_URL,
                              POSTGRES_AVAILABLE, page, inc>>

Next ==
    \/ CreateConnector
    \/ GetConnector
    \/ TestConnector
    \/ GetConnectorTables
    \/ SyncConnector
    \/ SyncAllConnectors
    \/ RemoveConnector
    \/ GetConnectorStatus
    \/ GetConnectorRequirements

Spec == Init /\ [][Next]_vars

----------------------------------------------------------------------------
(* One connector and its loader: a sync through the manager against a fresh
   analytics store with every combination of per-table answers, and direct
   calls of PostgresLoader.load_data *)

\* the cache after create_connector succeeded for (company_id, connector_type)
CacheWith(company_id, connector_type) ==
    [k \in {connector_key(company_id, connector_type)} |->
        [cls |-> CONNECTOR_REGISTRY[connector_type], company_id |-> company_id,
         credentials |-> ValidCredentials(required_credentials(CONNECTOR_REGISTRY[connector_type]))]]

InitSync ==
    /\ \E connector_type \in RegisteredTypes :
           active_connectors = CacheWith(1, connector_type)
    /\ data_sources = <<>>
    /\ POSTGRES_AVAILABLE \in BOOLEAN
    /\ DATABASE_URL \in BOOLEAN
    /\ POSTGRES_AVAILABLE => DATABASE_URL
    /\ store = EmptyStore
    /\ last = NoCall
    /\ page = NoCall
    /\ inc = NoCall

\* the list of tables a sync walks through
Requested(connector_type, tables) ==
    IF tables.given THEN tables.list ELSE default_objects(CONNECTOR_REGISTRY[connector_type])

SyncTables ==
    /\ last = NoCall
    /\ \E key \in DOMAIN active_connectors :
       \E tables \in TablesInputs(key[2], MaxTables) :
       \E outs \in [1..TablesLen(key[2], tables) -> EnvOutcomes(CONNECTOR_REGISTRY[key[2]])] :
           LET g == get_connector(active_connectors, data_sources, key[1], key[2],
                                  "up", "ok", POSTGRES_AVAILABLE, DATABASE_URL)
               r == sync_connector(g, tables, outs, POSTGRES_AVAILABLE)
           IN  /\ active_connectors' = g.cache
               /\ store' = ApplyOps(store, r.ops)
               /\ last' = [op |-> "sync_connector", company_id |-> key[1],
                           connector_type |-> key[2], raised |-> FALSE,
                           tables |-> tables, outs |-> outs, db |-> "up", api |-> "ok",
                           hit |-> g.hit, follows_remove |-> FALSE, removed |-> FALSE,
                           result |-> r]
               /\ UNCHANGED <<data_sources, DATABASE_URL, POSTGRES_AVAILABLE, page, inc>>

\* a direct call loader.load_data(table_name, data, source_system, company_id)
LoadData ==
    /\ DATABASE_URL
    /\ last.op \in {"none", "load_data"}
    /\ \A t \in DOMAIN store.tables : store.tables[t] < MaxStoreRows
    /\ \E key \in DOMAIN active_connectors :
       \E name \in TableNames(key[2]), n \in 0..MaxRecords, outcome \in LoadOutcomes :
           LET cls == CONNECTOR_REGISTRY[key[2]]
               r == load_data(postgres_table_name(cls, name), Records(n),
                              connector_name(cls), key[1], outcome)
           IN  /\ store' = ApplyOps(store, r.ops)
               /\ last' = [op |-> "load_data", company_id |-> key[1],
                           table_name |-> postgres_table_name(cls, name),
                           data |-> Records(n), outcome |-> outcome,
                           raised |-> r.raised, ret |-> r.ret, ops |-> r.ops,
                           changed |-> ApplyOps(store, r.ops) # store]
               /\ UNCHANGED <<active_connectors, data_sources, DATABASE_URL,
                              POSTGRES_AVAILABLE, page, inc>>

NextSync ==
    \/ SyncTables
    \/ LoadData

SpecSync == InitSync /\ [][NextSync]_vars

----------------------------------------------------------------------------
(* Properties of a sync and of the loader (SpecSync) *)

LastSync == last.op = "sync_connector" /\ last.hit

\* the tables the last sync walked through, and the connector that ran it
ReqList == Requested(last.connector_type, last.tables)

SyncInst == active_connectors[connector_key(last.company_id, last.connector_type)]

\* what sync_table answered for the i-th requested table
TableOutcome(i) == sync_table(SyncInst, ReqList[i], last.outs[i], POSTGRES_AVAILABLE)

\* the elements of list at the positions where flags holds, in order
RECURSIVE Keep(_, _, _)
Keep(list, flags, i) ==
    IF i > Len(list) THEN <<>>
    ELSE (IF flags[i] THEN <<list[i]>> ELSE <<>>) \o Keep(list, flags, i + 1)

Succeeded == [i \in DOMAIN ReqList |-> TableOutcome(i).success]
Failed == [i \in DOMAIN ReqList |-> ~TableOutcome(i).success]

\* C1: for every list of requested tables and every combination of per-table
\* outcomes, the SyncResult of full_sync reached through sync_connector has
\* success = true exactly when sync_table reported no requested table as failed,
\* and its error_message is absent exactly when success is true.
C1_SuccessIffNoTableFailed ==
    LastSync =>
        /\ last.result.success <=> (\A i \in DOMAIN ReqList : TableOutcome(i).success)
        /\ (last.result.error_message = NoMessage) <=> last.result.success

C1_Witness ==
    /\ LastSync
    /\ \E i, j \in DOMAIN ReqList : ~TableOutcome(i).success /\ TableOutcome(j).success
    /\ ~last.result.success
    /\ last.result.error_message # NoMessage

\* C2: tables_synced is exactly the requested tables that succeeded, in request
\* order; records_synced is the sum of the record counts of those tables only;
\* error_message names every failed table and no succeeded one.
C2_Aggregation ==
    LastSync =>
        /\ last.result.tables_synced = Keep(ReqList, Succeeded, 1)
        /\ last.result.records_synced =
               SeqSum([i \in DOMAIN ReqList |->
                          IF Succeeded[i] THEN TableOutcome(i).records ELSE 0])
        /\ last.result.error_message.names = Keep(ReqList, Failed, 1)

\* A ok with records, B fails, C ok with records
C2_Witness ==
    /\ LastSync
    /\ Len(ReqList) = 3
    /\ Cardinality(Range(ReqList)) = 3
    /\ Succeeded = <<TRUE, FALSE, TRUE>>
    /\ TableOutcome(1).records > 0 /\ TableOutcome(3).records > 0
    /\ ~last.result.success
    /\ last.result.records_synced = TableOutcome(1).records + TableOutcome(3).records
    /\ last.result.tables_synced = <<ReqList[1], ReqList[3]>>
    /\ last.result.error_message.names = <<ReqList[2]>>

\* the i-th table is requested once
RequestedOnce(i) == \A j \in DOMAIN ReqList : j # i => ReqList[j] # ReqList[i]

\* the table at position i counts as a per-table failure of the last sync
RecordedAsFailure(i) ==
    /\ ~last.result.success
    /\ ReqList[i] \in Range(last.result.error_message.names)
    /\ RequestedOnce(i) => ReqList[i] \notin Range(last.result.tables_synced)

\* C3: a table whose extraction fails during sync_connector (API or network
\* error, or authentication that cannot be obtained, inside extract_data) is
\* excluded from tables_synced, is named in error_message and makes success false.
C3_ExtractionFailureIsRecorded ==
    LastSync =>
        \A i \in DOMAIN ReqList : last.outs[i].ext # "ok" => RecordedAsFailure(i)

\* the store refused the load of the i-th table
LoadRaised(i) ==
    POSTGRES_AVAILABLE /\ last.outs[i].ext = "ok" /\ last.outs[i].n > 0
                       /\ last.outs[i].load # "ok"

\* C4: when load_data raises a store error for a table during sync_connector,
\* the table is a per-table failure (not in tables_synced, named in
\* error_message, success false), its records are not added to records_synced,
\* and the other tables are still synced.
C4_LoadFailureIsRecorded ==
    LastSync =>
        /\ \A i \in DOMAIN ReqList : LoadRaised(i) => RecordedAsFailure(i)
        /\ (\E i \in DOMAIN ReqList : LoadRaised(i)) =>
               last.result.records_synced =
                   SeqSum([i \in DOMAIN ReqList |->
                              IF Succeeded[i] /\ ~LoadRaised(i)
                              THEN TableOutcome(i).records ELSE 0])

\* C10: load_data with an empty record list returns 0 and sends nothing to the
\* store (no connection, no CREATE SCHEMA, no CREATE TABLE, no INSERT), however
\* often it is called and whatever the store would answer; and sync_table does
\* not call the loader for a table whose extraction is empty.
C10_EmptyLoadIsNoOp ==
    /\ (last.op = "load_data" /\ last.data = <<>>) =>
           last.ret = 0 /\ ~last.raised /\ last.ops = <<>> /\ ~last.changed
    /\ LastSync =>
           \A i \in DOMAIN ReqList :
               extract_data(SyncInst.cls, last.outs[i]).data = <<>> =>
                   last.result.loader_calls[i] = 0

\* an empty load on a store that earlier loads filled and that would refuse the connection
C10_Witness ==
    /\ last.op = "load_data"
    /\ last.data = <<>>
    /\ last.outcome = "connect"
    /\ last.ret = 0
    /\ \E t \in DOMAIN store.tables : store.tables[t] > 0

----------------------------------------------------------------------------
(* Properties of the manager (Spec) *)

\* the failed SyncResult of a connector that is not there
NotFoundResult(r) ==
    /\ ~r.success
    /\ r.error_message = Message("Connector not found")
    /\ r.records_synced = 0
    /\ r.tables_synced = <<>>

SyncAfterRemove == last.op = "sync_connector" /\ last.follows_remove

\* the credential store answers the last call with credentials for its
\* (tenant, type) from which create_connector builds a connector
Rebuildable ==
    LET key == connector_key(last.company_id, last.connector_type) IN
    /\ last.connector_type \in RegisteredTypes
    /\ DATABASE_URL
    /\ last.db = "up"
    /\ key \in DOMAIN data_sources
    /\ MissingKeys(required_credentials(CONNECTOR_REGISTRY[last.connector_type]),
                   data_sources[key]) = {}
    /\ last.api = "ok"

\* C5 as stated: after remove_connector(tenant, type) has returned, a following
\* sync_connector(tenant, type) returns a failed SyncResult 'Connector not found'
\* with zero records and no tables, without raising, whatever the credential
\* store holds for (tenant, type).
C5_SyncAfterRemoveIsNotFound ==
    SyncAfterRemove => ~last.raised /\ NotFoundResult(last.result)

\* C5 amended: the sync that follows remove_connector(tenant, type) does not
\* raise, and it returns the failed SyncResult 'Connector not found' (zero
\* records, no tables) exactly when the credential store yields no credentials
\* for (tenant, type) from which a connector can be built; when it yields such
\* credentials the connector is rebuilt, cached again, and the sync runs.
C5_SyncAfterRemoveUnlessRebuilt ==
    SyncAfterRemove =>
        /\ ~last.raised
        /\ NotFoundResult(last.result) <=> ~Rebuildable
        /\ Rebuildable <=>
               connector_key(last.company_id, last.connector_type) \in DOMAIN active_connectors

\* a cached connector was removed, the store still holds a row for it, and the
\* sync that follows finds no connector
C5_Witness ==
    /\ SyncAfterRemove
    /\ last.removed
    /\ connector_key(last.company_id, last.connector_type) \in DOMAIN data_sources
    /\ NotFoundResult(last.result)

\* C6: create_connector with a credential map in which a required key is absent
\* or empty returns (false, message) whose message lists exactly the missing
\* required keys, makes no test_connection or network call, and caches nothing.
C6_MissingKeysAreListed ==
    (/\ last.op = "create_connector"
     /\ last.connector_type \in RegisteredTypes
     /\ MissingKeys(required_credentials(CONNECTOR_REGISTRY[last.connector_type]),
                    last.credentials) # {}) =>
        /\ ~last.ok
        /\ last.message.kind = "Missing credentials"
        /\ Range(last.message.names) =
               MissingKeys(required_credentials(CONNECTOR_REGISTRY[last.connector_type]),
                           last.credentials)
        /\ ~last.probed
        /\ ~last.cached

\* C7: no public operation of SimpleConnectorManager lets an exception reach
\* its caller.
C7_NoExceptionReachesCaller == ~last.raised

----------------------------------------------------------------------------
(* Paginated extraction against a mock API that serves a data set of `total`
   records in pages.  A page of records is the pair <<first, last>> of the
   positions it carries; all_results is the list of the pages collected. *)

JiraMaxResults == 100
JiraSafetyLimit == 10000
HarvestPerPage == 100
QuickBooksMaxPerPage == 1000
QuickBooksMaxResults == 1000

Min(a, b) == IF a < b THEN a ELSE b

\* the records the API returns for a request of `limit` records after `offset`
Slice(total, offset, limit) ==
    IF offset >= total THEN <<>> ELSE <<offset + 1, Min(offset + limit, total)>>

SliceLen(s) == IF s = <<>> THEN 0 ELSE s[2] - s[1] + 1

\* list.extend(records)
Extend(all, s) == IF s = <<>> THEN all ELSE Append(all, s)

\* len(all_results)
Count(all) == SeqSum([i \in DOMAIN all |-> SliceLen(all[i])])

Paginators ==
    {"jira_issues", "jira_values", "jira_values_no_total", "jira_array",
     "harvest", "quickbooks"}

PageSize(paginator) ==
    IF paginator = "harvest" THEN HarvestPerPage
    ELSE IF paginator = "quickbooks" THEN QuickBooksMaxPerPage
    ELSE JiraMaxResults

\* the sizes of the data set: empty, or up to MaxPages pages whose last page
\* holds one record, half a page, all but one record, or is full
TotalInputs(paginator) ==
    LET P == PageSize(paginator) IN
    {0} \cup {(n - 1) * P + k : n \in 1..MaxPages, k \in {1, P \div 2, P - 1, P}}

\* the call starts: the loop variables before the first request.  fail_at is
\* the request the API answers with an error (0: none)
StartPagination ==
    /\ page = NoCall
    /\ \E paginator \in Paginators :
       \E total \in TotalInputs(paginator), fail_at \in 0..MaxPages :
           page' = [op |-> "paginate", raised |-> FALSE, paginator |-> paginator,
                    total |-> total, fail_at |-> fail_at, pc |-> "loop",
                    position |-> IF paginator \in {"harvest", "quickbooks"} THEN 1 ELSE 0,
                    all_results |-> <<>>, requests |-> 0]
    /\ UNCHANGED <<active_connectors, data_sources, DATABASE_URL, POSTGRES_AVAILABLE,
                   store, last, inc>>

\* JiraConnector.make_paginated_request: one pass of the while loop
JiraConnector_make_paginated_request(p) ==
    IF p.fail_at = p.requests + 1
    THEN [p EXCEPT !.requests = @ + 1, !.pc = "done"]
    ELSE LET results == Slice(p.total, p.position, JiraMaxResults)
             total == IF p.paginator \in {"jira_issues", "jira_values"} THEN p.total
                      ELSE SliceLen(results)
             all == Extend(p.all_results, results)
             start_at == p.position + JiraMaxResults
         IN  IF SliceLen(results) < JiraMaxResults \/ Count(all) >= total
             THEN [p EXCEPT !.requests = @ + 1, !.all_results = all, !.pc = "done"]
             ELSE [p EXCEPT !.requests = @ + 1, !.all_results = all,
                            !.position = start_at,
                            !.pc = IF start_at > JiraSafetyLimit THEN "done" ELSE "loop"]

\* SimpleHarvestConnector.make_paginated_request: one pass of the while loop
\* (the access token is present); an exception discards what was collected
SimpleHarvestConnector_make_paginated_request(p) ==
    IF p.fail_at = p.requests + 1
    THEN [p EXCEPT !.requests = @ + 1, !.all_results = <<>>, !.pc = "done"]
    ELSE LET records == Slice(p.total, (p.position - 1) * HarvestPerPage, HarvestPerPage)
             total_pages == (p.total + HarvestPerPage - 1) \div HarvestPerPage
         IN  IF records = <<>>
             THEN [p EXCEPT !.requests = @ + 1, !.pc = "done"]
             ELSE IF p.position >= total_pages
             THEN [p EXCEPT !.requests = @ + 1, !.all_results = Append(@, records),
                            !.pc = "done"]
             ELSE [p EXCEPT !.requests = @ + 1, !.all_results = Append(@, records),
                            !.position = @ + 1]

\* SimpleQuickBooksConnector.make_query_request: one pass of the while loop
\* (the loop is entered while len(all_records) < max_results)
SimpleQuickBooksConnector_make_query_request(p) ==
    IF p.fail_at = p.requests + 1
    THEN [p EXCEPT !.requests = @ + 1, !.all_results = <<>>, !.pc = "done"]
    ELSE LET records == Slice(p.total, p.position - 1, QuickBooksMaxPerPage)
             all == Extend(p.all_results, records)
         IN  IF records = <<>> \/ SliceLen(records) < QuickBooksMaxPerPage
             THEN [p EXCEPT !.requests = @ + 1, !.all_results = all, !.pc = "done"]
             ELSE [p EXCEPT !.requests = @ + 1, !.all_results = all,
                            !.position = @ + QuickBooksMaxPerPage,
                            !.pc = IF Count(all) < QuickBooksMaxResults
                                   THEN "loop" ELSE "done"]

JiraPage ==
    /\ page.op = "paginate" /\ page.pc = "loop"
    /\ page.paginator \notin {"harvest", "quickbooks"}
    /\ page' = JiraConnector_make_paginated_request(page)
    /\ UNCHANGED <<active_connectors, data_sources, DATABASE_URL, POSTGRES_AVAILABLE,
                   store, last, inc>>

HarvestPage ==
    /\ page.op = "paginate" /\ page.pc = "loop"
    /\ page.paginator = "harvest"
    /\ page' = SimpleHarvestConnector_make_paginated_request(page)
    /\ UNCHANGED <<active_connectors, data_sources, DATABASE_URL, POSTGRES_AVAILABLE,
                   store, last, inc>>

QuickBooksPage ==
    /\ page.op = "paginate" /\ page.pc = "loop"
    /\ page.paginator = "quickbooks"
    /\ page' = SimpleQuickBooksConnector_make_query_request(page)
    /\ UNCHANGED <<active_connectors, data_sources, DATABASE_URL, POSTGRES_AVAILABLE,
                   store, last, inc>>

InitPage ==
    /\ active_connectors = <<>>
    /\ data_sources = <<>>
    /\ DATABASE_URL = FALSE
    /\ POSTGRES_AVAILABLE = FALSE
    /\ store = EmptyStore
    /\ last = NoCall
    /\ page = NoCall
    /\ inc = NoCall

NextPage ==
    \/ StartPagination
    \/ JiraPage
    \/ HarvestPage
    \/ QuickBooksPage

SpecPage == InitPage /\ [][NextPage]_vars

\* the safety cap of a paginator: the records it may collect at most
SafetyCap(paginator) ==
    IF paginator = "quickbooks" THEN QuickBooksMaxResults
    ELSE JiraSafetyLimit + JiraMaxResults

\* the pages of a data set of `total` records served P at a time
PagesOf(total, P) ==
    [k \in 1..((total + P - 1) \div P) |-> <<(k - 1) * P + 1, Min(k * P, total)>>]

\* C8: against an API serving N pages of size P with the last page partial and
\* a total below the safety cap, the paginated extraction returns exactly
\* (N-1)*P + partial_size records, each page's records once and in page order,
\* and issues exactly N page requests.
C8_PaginationIsExact ==
    (/\ page.op = "paginate" /\ page.pc = "done" /\ page.fail_at = 0
     /\ page.total % PageSize(page.paginator) # 0
     /\ page.total < SafetyCap(page.paginator)) =>
        /\ Count(page.all_results) = page.total
        /\ page.all_results = PagesOf(page.total, PageSize(page.paginator))
        /\ page.requests = Len(PagesOf(page.total, PageSize(page.paginator)))

----------------------------------------------------------------------------
(* Incremental and full extraction of one table from the same source state.
   A source row carries its position and the age in days of its last
   modification; the cutoff of an incremental extraction is LookbackDays. *)

LookbackDays == 30

Ages == {0, LookbackDays, LookbackDays + 1}

\* the source states: up to MaxSourceRows rows
SourceInputs ==
    {[i \in DOMAIN ages |-> [id |-> i, age |-> ages[i]]] : ages \in SeqsUpTo(Ages, MaxSourceRows)}

\* SimpleSalesforceConnector.build_soql_query (fields left out)
build_soql_query(object_name, incremental) ==
    [object |-> object_name,
     conditions |-> (IF incremental THEN <<"LastModifiedDate >= LAST_N_DAYS:30">> ELSE <<>>)
                    \o (IF object_name # "User" THEN <<"IsDeleted = FALSE">> ELSE <<>>),
     order_by |-> "LastModifiedDate DESC"]

\* the request make_soql_request sends: params = {'q': soql_query} is built but
\* not passed to requests.get, so the request carries no query
soql_request(soql_query) == [url |-> "/services/data/query", q |-> None]

\* how the API answers a request: a request without a query is refused
\* (api = "error") or answered with every row (api = "all"); a query would be
\* answered with the rows that satisfy its time condition
soql_answer(request, rows, api) ==
    IF request.q = None
    THEN IF api = "all" THEN [raised |-> FALSE, records |-> rows]
         ELSE [raised |-> TRUE, records |-> <<>>]
    ELSE [raised |-> FALSE,
          records |-> IF "LastModifiedDate >= LAST_N_DAYS:30" \in Range(request.q.conditions)
                      THEN SelectSeq(rows, LAMBDA r : r.age <= LookbackDays)
                      ELSE rows]

\* SimpleSalesforceConnector.make_soql_request: [] when the request fails
make_soql_request(soql_query, rows, api) ==
    LET a == soql_answer(soql_request(soql_query), rows, api) IN
    [answered |-> a.records, records |-> IF a.raised THEN <<>> ELSE a.records]

\* SimpleSalesforceConnector.extract_data over source rows
SimpleSalesforceConnector_extract(table_name, incremental, rows, api) ==
    make_soql_request(build_soql_query(table_name, incremental), rows, api)

\* SimpleZohoConnector.extract_data: the table name selects the API; the
\* incremental argument is not used
SimpleZohoConnector_extract(table_name, incremental, rows) ==
    IF table_name \in {"crm_leads", "books_invoices"}
    THEN [answered |-> rows, records |-> rows]
    ELSE [answered |-> <<>>, records |-> <<>>]

InitInc ==
    /\ active_connectors = <<>>
    /\ data_sources = <<>>
    /\ DATABASE_URL = FALSE
    /\ POSTGRES_AVAILABLE = FALSE
    /\ store = EmptyStore
    /\ last = NoCall
    /\ page = NoCall
    /\ inc = NoCall

\* extract_data(T, incremental=True) and extract_data(T, incremental=False)
\* on the same source state
ExtractSalesforce ==
    /\ inc = NoCall
    /\ \E rows \in SourceInputs, table_name \in {"Account", "User"}, api \in {"error", "all"} :
           LET i == SimpleSalesforceConnector_extract(table_name, TRUE, rows, api)
               f == SimpleSalesforceConnector_extract(table_name, FALSE, rows, api)
           IN  inc' = [op |-> "extract", raised |-> FALSE, connector |-> "salesforce",
                       table_name |-> table_name, rows |-> rows,
                       incremental |-> i.records, full |-> f.records,
                       answered_full |-> f.answered]
    /\ UNCHANGED <<active_connectors, data_sources, DATABASE_URL, POSTGRES_AVAILABLE,
                   store, last, page>>

ExtractZoho ==
    /\ inc = NoCall
    /\ \E rows \in SourceInputs,
          table_name \in {"crm_leads", "books_invoices", "desk_tickets"} :
           LET i == SimpleZohoConnector_extract(table_name, TRUE, rows)
               f == SimpleZohoConnector_extract(table_name, FALSE, rows)
           IN  inc' = [op |-> "extract", raised |-> FALSE, connector |-> "zoho",
                       table_name |-> table_name, rows |-> rows,
                       incremental |-> i.records, full |-> f.records,
                       answered_full |-> f.answered]
    /\ UNCHANGED <<active_connectors, data_sources, DATABASE_URL, POSTGRES_AVAILABLE,
                   store, last, page>>

NextInc ==
    \/ ExtractSalesforce
    \/ ExtractZoho

SpecInc == InitInc /\ [][NextInc]_vars

\* C9: for every table and source state, extract_data(T, incremental=True)
\* returns only records modified at or after the cutoff, extract_data(T,
\* incremental=False) applies no time filter (it returns every record it was
\* handed), and the incremental result is a subset of the full result.
C9_IncrementalIsFilteredSubset ==
    inc.op = "extract" =>
        /\ \A r \in Range(inc.incremental) : r.age <= LookbackDays
        /\ inc.full = inc.answered_full
        /\ Range(inc.incremental) \subseteq Range(inc.full)

----------------------------------------------------------------------------
(* The loader in detail: column names are strings (sequences of characters),
   a record is a list of <<key, value>> pairs in the order of the dict, the
   store keeps the columns and the rows of every table *)

UpperCase ==
    <<"A", "B", "C", "D", "E", "F", "G", "H", "I", "J", "K", "L", "M",
      "N", "O", "P", "Q", "R", "S", "T", "U", "V", "W", "X", "Y", "Z">>

LowerCase ==
    <<"a", "b", "c", "d", "e", "f", "g", "h", "i", "j", "k", "l", "m",
      "n", "o", "p", "q", "r", "s", "t", "u", "v", "w", "x", "y", "z">>

\* the characters in the order of their code points
Alphabet == <<" ", "-", ".">> \o UpperCase \o <<"_">> \o LowerCase

Code(c) == CHOOSE i \in DOMAIN Alphabet : Alphabet[i] = c

\* str.lower() on one character
LowerChar(c) ==
    IF c \in Range(UpperCase)
    THEN LowerCase[CHOOSE i \in DOMAIN UpperCase : UpperCase[i] = c]
    ELSE c

\* str.replace(old, new) for a one-character old
Replace(name, old, new) == [i \in DOMAIN name |-> IF name[i] = old THEN new ELSE name[i]]

\* str.lower()
StrLower(name) == [i \in DOMAIN name |-> LowerChar(name[i])]

\* a clean_column_name that leaves out the final lower()
clean_column_name_keeping_case(name) ==
    Replace(Replace(Replace(name, " ", "_"), "-", "_"), ".", "_")

\* PostgresLoader.clean_column_name
clean_column_name(name) ==
    StrLower(Replace(Replace(Replace(name, " ", "_"), "-", "_"), ".", "_"))

\* the order of Python strings: a < b
RECURSIVE StrLess(_, _)
StrLess(a, b) ==
    IF b = <<>> THEN FALSE
    ELSE IF a = <<>> THEN TRUE
    ELSE IF Head(a) = Head(b) THEN StrLess(Tail(a), Tail(b))
    ELSE Code(Head(a)) < Code(Head(b))

\* sorted(names) for a set of strings
RECURSIVE Sorted(_)
Sorted(names) ==
    IF names = {} THEN <<>>
    ELSE LET least == CHOOSE x \in names : \A y \in names \ {x} : StrLess(x, y)
         IN  <<least>> \o Sorted(names \ {least})

\* Python values by their type, with the text str() gives
PyNone == [t |-> "NoneType", s |-> "None"]
PyValues ==
    {PyNone, [t |-> "bool", s |-> "True"], [t |-> "int", s |-> "42"],
     [t |-> "float", s |-> "3.14"], [t |-> "datetime", s |-> "2024-01-01T00:00:00"],
     [t |-> "dict", s |-> "{}"], [t |-> "list", s |-> "[]"], [t |-> "str", s |-> "string"]}

\* isinstance(value, cls): bool is a subclass of int
isinstance(value, cls) ==
    value.t = cls \/ (cls = "int" /\ value.t = "bool")

\* PostgresLoader.get_postgres_type
get_postgres_type(value) ==
    IF value = PyNone THEN "TEXT"
    ELSE IF isinstance(value, "bool") THEN "BOOLEAN"
    ELSE IF isinstance(value, "int") THEN "BIGINT"
    ELSE IF isinstance(value, "float") THEN "NUMERIC"
    ELSE IF isinstance(value, "datetime") THEN "TIMESTAMP"
    ELSE IF isinstance(value, "dict") \/ isinstance(value, "list") THEN "JSONB"
    ELSE "TEXT"

\* a cell of a row: NULL, a text, or a number
SqlNull == [null |-> TRUE, s |-> "", n |-> 0]
SqlText(s) == [null |-> FALSE, s |-> s, n |-> 0]
SqlInt(n) == [null |-> FALSE, s |-> "", n |-> n]

\* PostgresLoader.prepare_value_for_insert
prepare_value_for_insert(value) ==
    IF value = PyNone THEN SqlNull
    ELSE IF isinstance(value, "dict") \/ isinstance(value, "list") THEN SqlText(value.s)
    ELSE IF isinstance(value, "bool") THEN SqlText(IF value.s = "True" THEN "true" ELSE "false")
    ELSE SqlText(value.s)

\* the metadata columns load_data adds to every row
LoadedAt == <<"l", "o", "a", "d", "e", "d", "_", "a", "t">>
SourceSystem == <<"s", "o", "u", "r", "c", "e", "_", "s", "y", "s", "t", "e", "m">>
CompanyId == <<"c", "o", "m", "p", "a", "n", "y", "_", "i", "d">>

MetadataColumns ==
    <<[name |-> LoadedAt, type |-> "TIMESTAMP DEFAULT CURRENT_TIMESTAMP"],
      [name |-> SourceSystem, type |-> "VARCHAR(100)"],
      [name |-> CompanyId, type |-> "BIGINT"]>>

\* the keys of all records of a batch, normalized
RECURSIVE CleanKeys(_)
CleanKeys(data) ==
    IF data = <<>> THEN {}
    ELSE {clean_column_name(p[1]) : p \in Range(Head(data))} \cup CleanKeys(Tail(data))

\* full_table_name = f"{schema_name}.{table_name.lower()}"
full_table_name(table_name, company_id) ==
    <<get_analytics_schema_name(company_id), <<table_name[1], Lower(table_name[2])>>>>

\* PostgresLoader.create_table_if_not_exists: the CREATE TABLE statement it sends
create_table_if_not_exists(table_name, data, company_id) ==
    LET all_columns == Sorted(CleanKeys(data)) IN
    [op |-> "CREATE TABLE IF NOT EXISTS",
     table |-> full_table_name(table_name, company_id),
     columns |-> [i \in DOMAIN all_columns |-> [name |-> all_columns[i], type |-> "TEXT"]]
                 \o MetadataColumns]

\* the second pass of load_data over one record: every column None, then the
\* record's items in their order, then the metadata
RECURSIVE FillRow(_, _)
FillRow(row_data, items) ==
    IF items = <<>> THEN row_data
    ELSE FillRow([row_data EXCEPT ![clean_column_name(Head(items)[1])] =
                      prepare_value_for_insert(Head(items)[2])],
                 Tail(items))

row_data(columns, record, source_system, company_id) ==
    [FillRow([col \in Range(columns) |-> SqlNull], record)
        EXCEPT ![LoadedAt] = SqlText("utcnow"),
               ![SourceSystem] = SqlText(source_system),
               ![CompanyId] = SqlInt(company_id)]

\* the INSERT statement load_data sends with executemany
insert_statement(table_name, data, source_system, company_id) ==
    LET columns == Sorted(CleanKeys(data) \cup {LoadedAt, SourceSystem, CompanyId}) IN
    [op |-> "INSERT", table |-> full_table_name(table_name, company_id),
     columns |-> columns,
     values_list |-> [i \in DOMAIN data |->
                         row_data(columns, data[i], source_system, company_id)]]

\* the store executing CREATE TABLE IF NOT EXISTS: nothing happens when the
\* table exists; a column named twice is refused
ExecCreateTable(st, stmt) ==
    IF stmt.table \in DOMAIN st.tables THEN [raised |-> FALSE, store |-> st]
    ELSE IF Cardinality({stmt.columns[i].name : i \in DOMAIN stmt.columns}) < Len(stmt.columns)
    THEN [raised |-> TRUE, store |-> st]
    ELSE [raised |-> FALSE,
          store |-> [st EXCEPT !.tables =
              [t \in DOMAIN st.tables \cup {stmt.table} |->
                  IF t \in DOMAIN st.tables THEN st.tables[t]
                  ELSE [columns |-> [c \in {stmt.columns[i].name : i \in DOMAIN stmt.columns} |->
                                        (CHOOSE d \in Range(stmt.columns) : d.name = c).type],
                        rows |-> <<>>]]]]

\* the store executing the INSERT: a column the table does not have is refused
ExecInsert(st, stmt) ==
    IF stmt.table \notin DOMAIN st.tables
       \/ ~(Range(stmt.columns) \subseteq DOMAIN st.tables[stmt.table].columns)
    THEN [raised |-> TRUE, store |-> st]
    ELSE [raised |-> FALSE,
          store |-> [st EXCEPT !.tables[stmt.table].rows = @ \o stmt.values_list]]

\* a load_data that first adds to an existing table the columns it lacks
PostgresLoader_load_data_migrating(st, table_name, data, source_system, company_id, connect) ==
    LET ins == insert_statement(table_name, data, source_system, company_id)
        t == ins.table
        s1 == [st EXCEPT !.schemas = @ \cup {get_analytics_schema_name(company_id)}]
        c == ExecCreateTable(s1, create_table_if_not_exists(table_name, data, company_id))
        s2 == IF t \in DOMAIN c.store.tables
              THEN [c.store EXCEPT !.tables[t].columns =
                       [col \in DOMAIN @ \cup Range(ins.columns) |->
                           IF col \in DOMAIN @ THEN @[col] ELSE "TEXT"]]
              ELSE c.store
        i == ExecInsert(s2, ins)
    IN  IF data = <<>> \/ connect = "refused"
        THEN [raised |-> data # <<>>, ret |-> 0, store |-> st, statements |-> <<>>]
        ELSE [raised |-> i.raised, ret |-> IF i.raised THEN 0 ELSE Len(ins.values_list),
              store |-> i.store, statements |-> <<ins>>]

\* PostgresLoader.load_data on a store that keeps columns and rows.  connect is
\* what get_connection meets: "ok" or "refused"
PostgresLoader_load_data(st, table_name, data, source_system, company_id, connect) ==
    LET ct == create_table_if_not_exists(table_name, data, company_id)
        ins == insert_statement(table_name, data, source_system, company_id)
        s1 == [st EXCEPT !.schemas = @ \cup {get_analytics_schema_name(company_id)}]
        c == ExecCreateTable(s1, ct)
        i == ExecInsert(c.store, ins)
    IN  IF data = <<>>
        THEN [raised |-> FALSE, ret |-> 0, store |-> st, statements |-> <<>>]
        ELSE IF connect = "refused"
        THEN [raised |-> TRUE, ret |-> 0, store |-> st, statements |-> <<>>]
        ELSE IF c.raised
        THEN [raised |-> TRUE, ret |-> 0, store |-> c.store, statements |-> <<ct>>]
        ELSE IF i.raised
        THEN [raised |-> TRUE, ret |-> 0, store |-> i.store, statements |-> <<ct, ins>>]
        ELSE [raised |-> FALSE, ret |-> Len(ins.values_list), store |-> i.store,
              statements |-> <<ct, ins>>]

-----------------------------------------------------------------------------
(* The loader on its own: one load_data call on a store that is empty or
   holds the table from an earlier load, and clean_column_name on names *)

\* keys of records: two that differ in case only, one with a space, one that
\* is the name of a metadata column
KeyInputs == {<<"I", "d">>, <<"i", "d">>, <<"D", " ", "N">>, CompanyId}

\* values of records: None, a number, a list
CellValues == {PyNone, [t |-> "int", s |-> "42"], [t |-> "list", s |-> "[]"]}

\* records of c items with distinct keys, in the order of the dict
RecordsOf(c) ==
    {r \in [1..c -> KeyInputs \X CellValues] :
        \A i, j \in 1..c : r[i][1] = r[j][1] => i = j}

\* batches of at most n records and at most cells items in all
RECURSIVE Batches(_, _)
Batches(n, cells) ==
    IF n = 0 THEN {<<>>}
    ELSE {<<>>} \cup
         UNION {{<<r>> \o b : r \in RecordsOf(c), b \in Batches(n - 1, cells - c)} :
                   c \in 0..cells}

BatchInputs == Batches(MaxBatch, MaxCells)

LoadTable == <<"salesforce", "Account">>

\* the store after an earlier load of one record {"id": 42} into the table
StoreWithTable ==
    PostgresLoader_load_data(EmptyStore, LoadTable,
        <<<<<<<<"i", "d">>, [t |-> "int", s |-> "42"]>>>>>>, "salesforce", 1, "ok").store

\* names handed to clean_column_name
NameChars == {" ", "-", ".", "D", "n", "_"}
DealName == <<"D", "e", "a", "l", " ", "N", "a", "m", "e">>
TestColumnName ==
    <<"T", "e", "s", "t", " ", "C", "o", "l", "u", "m", "n", "-", "N", "a", "m", "e",
      ".", "W", "i", "t", "h", " ", "S", "p", "a", "c", "e", "s">>
NameInputs == SeqsUpTo(NameChars, MaxNameLen) \cup {DealName, TestColumnName}

InitLoad ==
    /\ active_connectors = <<>>
    /\ data_sources = <<>>
    /\ DATABASE_URL = TRUE
    /\ POSTGRES_AVAILABLE = TRUE
    /\ store \in {EmptyStore, StoreWithTable}
    /\ last = NoCall
    /\ page = NoCall
    /\ inc = NoCall

\* loader.load_data(table_name, data, source_system, company_id)
LoadBatch ==
    /\ last = NoCall
    /\ \E data \in BatchInputs, company_id \in Tenants, connect \in {"ok", "refused"} :
          LET r == PostgresLoader_load_data(store, LoadTable, data,
                                            "salesforce", company_id, connect)
          IN  /\ store' = r.store
              /\ last' = [op |-> "load", raised |-> r.raised, table_name |-> LoadTable,
                          data |-> data, source_system |-> "salesforce",
                          company_id |-> company_id, connect |-> connect,
                          before |-> store, ret |-> r.ret, statements |-> r.statements]
    /\ UNCHANGED <<active_connectors, data_sources, DATABASE_URL, POSTGRES_AVAILABLE,
                   page, inc>>

\* loader.clean_column_name(name), and once more on its result
CleanColumnName ==
    /\ last = NoCall
    /\ \E name \in NameInputs :
          last' = [op |-> "clean", raised |-> FALSE, name |-> name,
                   once |-> clean_column_name(name),
                   twice |-> clean_column_name(clean_column_name(name))]
    /\ UNCHANGED <<active_connectors, data_sources, DATABASE_URL, POSTGRES_AVAILABLE,
                   store, page, inc>>

NextLoad ==
    \/ LoadBatch
    \/ CleanColumnName

SpecLoad == InitLoad /\ [][NextLoad]_vars

\* clean_column_name alone, on a loader that has loaded nothing
InitClean == InitLoad /\ store = EmptyStore

SpecClean == InitClean /\ [][CleanColumnName]_vars

\* C13: clean_column_name is idempotent, and its result holds no space, dash,
\* dot or upper-case letter; 'Deal Name' becomes 'deal_name' and
\* 'Test Column-Name.With Spaces' becomes 'test_column_name_with_spaces'.
\* (It is a function of the name alone, so it is deterministic.)
C13_CleanColumnNameIsIdempotent ==
    last.op = "clean" =>
        /\ last.twice = last.once
        /\ Range(last.once) \cap ({" ", "-", "."} \cup Range(UpperCase)) = {}
        /\ last.name = DealName =>
              last.once = <<"d", "e", "a", "l", "_", "n", "a", "m", "e">>
        /\ last.name = TestColumnName =>
              last.once = <<"t", "e", "s", "t", "_", "c", "o", "l", "u", "m", "n", "_",
                            "n", "a", "m", "e", "_", "w", "i", "t", "h", "_",
                            "s", "p", "a", "c", "e", "s">>

C13_Witness ==
    /\ last.op = "clean"
    /\ last.name = TestColumnName
    /\ last.once # last.name

\* the load of the last step as a first write that went through
LoadTarget == full_table_name(last.table_name, last.company_id)

FirstWrite ==
    /\ last.op = "load"
    /\ ~last.raised
    /\ LoadTarget \notin DOMAIN last.before.tables
    /\ LoadTarget \in DOMAIN store.tables

DataColumns == DOMAIN store.tables[LoadTarget].columns \ {LoadedAt, SourceSystem, CompanyId}

\* C11: the first write to a table creates it with one column per distinct
\* normalized key of the batch, and the type of each data column is the one
\* inferred from a value the batch holds for it (bool BOOLEAN, int BIGINT,
\* float NUMERIC, datetime TIMESTAMP, dict/list JSONB, anything else TEXT).
C11_ColumnTypesAreInferred ==
    FirstWrite =>
        /\ DataColumns = CleanKeys(last.data) \ {LoadedAt, SourceSystem, CompanyId}
        /\ \A c \in DataColumns :
              \E i \in DOMAIN last.data : \E item \in Range(last.data[i]) :
                  /\ clean_column_name(item[1]) = c
                  /\ store.tables[LoadTarget].columns[c] = get_postgres_type(item[2])

\* the rows the table holds before and after the load of the last step
RowsBefore ==
    IF LoadTarget \in DOMAIN last.before.tables
    THEN last.before.tables[LoadTarget].rows ELSE <<>>

RowsAfter ==
    IF LoadTarget \in DOMAIN store.tables THEN store.tables[LoadTarget].rows ELSE <<>>

\* the table is new, or it has a column for every key of the batch
ColumnsFit ==
    \/ LoadTarget \notin DOMAIN last.before.tables
    \/ CleanKeys(last.data) \subseteq DOMAIN last.before.tables[LoadTarget].columns

\* C12: for a non-empty batch and a store that answers, load_data adds exactly
\* one row per record, every row over the same columns (the normalized keys of
\* all records and loaded_at, source_system, company_id), a record that lacks
\* a key has null in that column, and the call returns the number of records.
C12_OneRowPerRecord ==
    (last.op = "load" /\ last.data # <<>> /\ last.connect = "ok" /\ ColumnsFit) =>
        /\ ~last.raised
        /\ last.ret = Len(last.data)
        /\ Len(RowsAfter) = Len(RowsBefore) + Len(last.data)
        /\ \A i \in DOMAIN last.data :
              LET row == RowsAfter[Len(RowsBefore) + i]
                  keys == {clean_column_name(item[1]) : item \in Range(last.data[i])}
              IN  /\ DOMAIN row = CleanKeys(last.data) \cup {LoadedAt, SourceSystem, CompanyId}
                  /\ \A c \in DOMAIN row \ (keys \cup {LoadedAt, SourceSystem, CompanyId}) :
                        row[c] = SqlNull

-----------------------------------------------------------------------------
(* The manager's cache with two tenants, one of whose ids is a prefix of the
   other's, in a deployment with the store configured (DATABASE_URL set and
   the driver present) or without it.  Every step keeps the cache it started
   from in last.before *)

ManyTenants == {1, 11}

\* credentials a caller or a row of data_sources holds: complete, or lacking
\* the first required key
TenantCredentials(connector_type) ==
    LET req == required_credentials(ClassOf(connector_type)) IN
    {ValidCredentials(req), [k \in Range(req) \ {req[1]} |-> "v"]}

\* data_sources with at most MaxStored rows
TenantSources ==
    {ds \in UNION {[S -> UNION {TenantCredentials(t) : t \in RegisteredTypes}] :
                     S \in {S \in SUBSET (ManyTenants \X RegisteredTypes) :
                               Cardinality(S) <= MaxStored}} :
        \A k \in DOMAIN ds : ds[k] \in TenantCredentials(k[2])}

InitTenants ==
    /\ active_connectors = <<>>
    /\ data_sources \in TenantSources
    /\ DATABASE_URL \in BOOLEAN
    /\ POSTGRES_AVAILABLE = DATABASE_URL
    /\ store = EmptyStore
    /\ last = NoCall
    /\ page = NoCall
    /\ inc = NoCall

\* manager.create_connector(connector_type, company_id, credentials)
TenantCreateConnector ==
    \E connector_type \in ConnectorTypes, company_id \in ManyTenants :
    \E credentials \in TenantCredentials(connector_type),
       api \in ProbeOutcomes(ClassOf(connector_type)) :
        LET r == create_connector(active_connectors, connector_type, company_id,
                                  credentials, api, POSTGRES_AVAILABLE, DATABASE_URL)
        IN  /\ active_connectors' = r.cache
            /\ last' = [op |-> "create_connector", company_id |-> company_id,
                        connector_type |-> connector_type, raised |-> FALSE,
                        credentials |-> credentials, api |-> api, ok |-> r.ok,
                        before |-> active_connectors]
            /\ UNCHANGED <<data_sources, DATABASE_URL, POSTGRES_AVAILABLE, store, page, inc>>

\* manager.get_connector(company_id, connector_type)
TenantGetConnector ==
    \E connector_type \in ConnectorTypes, company_id \in ManyTenants :
    \E e \in EnvInputs(connector_type) :
        LET g == Get(company_id, connector_type, e)
        IN  /\ active_connectors' = g.cache
            /\ last' = [op |-> "get_connector", company_id |-> company_id,
                        connector_type |-> connector_type, raised |-> FALSE,
                        db |-> e.db, api |-> e.api, found |-> g.found, inst |-> g.inst,
                        hit |-> g.hit, queried |-> g.queried, probed |-> g.probed,
                        before |-> active_connectors]
            /\ UNCHANGED <<data_sources, DATABASE_URL, POSTGRES_AVAILABLE, store, page, inc>>

\* manager.remove_connector(company_id, connector_type)
TenantRemoveConnector ==
    \E connector_type \in ConnectorTypes, company_id \in ManyTenants :
        LET r == remove_connector(active_connectors, company_id, connector_type)
        IN  /\ active_connectors' = r.cache
            /\ last' = [op |-> "remove_connector", company_id |-> company_id,
                        connector_type |-> connector_type, raised |-> FALSE, ret |-> r.ret,
                        before |-> active_connectors]
            /\ UNCHANGED <<data_sources, DATABASE_URL, POSTGRES_AVAILABLE, store, page, inc>>

\* manager.sync_all_connectors(company_id)
TenantSyncAllConnectors ==
    \E company_id \in ManyTenants :
    \E os \in [RegisteredTypes -> UNION {MgrOutcomes(t) : t \in RegisteredTypes}] :
        /\ \A t \in RegisteredTypes : os[t] \in MgrOutcomes(t)
        /\ LET outs == [t \in RegisteredTypes |->
                           [i \in 1..TablesLen(t, NoList) |-> os[t]]]
               r == sync_all_connectors(active_connectors, company_id, outs, POSTGRES_AVAILABLE)
           IN  /\ store' = ApplyOps(store, AllOps(r, DOMAIN r))
               /\ active_connectors' = active_connectors
               /\ last' = [op |-> "sync_all_connectors", company_id |-> company_id,
                           raised |-> FALSE, outs |-> outs, results |-> r,
                           before |-> active_connectors]
               /\ UNCHANGED <<data_sources, DATABASE_URL, POSTGRES_AVAILABLE, page, inc>>

NextTenants ==
    \/ TenantCreateConnector
    \/ TenantGetConnector
    \/ TenantRemoveConnector
    \/ TenantSyncAllConnectors

SpecTenants == InitTenants /\ [][NextTenants]_vars

\* the entries of the cache that the last step wrote
Written ==
    {k \in DOMAIN active_connectors :
        k \notin DOMAIN last.before \/ last.before[k] # active_connectors[k]}

\* C14: every entry cached under (tenant, type) is an instance of the class
\* registered for the type, constructed for that tenant, with every required
\* credential present and non-empty; an entry is written only by a call for
\* its own key whose probe of the API (test_connection) answered true, and a
\* create_connector that answers failure leaves the cache as it was.
C14_CachedInstancesAreValidated ==
    /\ \A k \in DOMAIN active_connectors :
          /\ k[2] \in RegisteredTypes
          /\ active_connectors[k].cls = CONNECTOR_REGISTRY[k[2]]
          /\ active_connectors[k].company_id = k[1]
          /\ \A cred \in Range(required_credentials(active_connectors[k].cls)) :
                /\ cred \in DOMAIN active_connectors[k].credentials
                /\ ~Falsy(active_connectors[k].credentials[cred])
    /\ last.op # "none" =>
          \A k \in Written :
              /\ last.op \in {"create_connector", "get_connector"}
              /\ k = connector_key(last.company_id, last.connector_type)
              /\ last.api = "ok"
    /\ (last.op = "create_connector" /\ ~last.ok) => active_connectors = last.before

C14_Witness ==
    /\ last.op = "create_connector"
    /\ last.company_id = 11
    /\ last.ok
    /\ Written = {connector_key(11, last.connector_type)}
    /\ connector_key(1, last.connector_type) \in DOMAIN active_connectors

\* the key of the last call, and the instance its stored credentials give
LastKey == connector_key(last.company_id, last.connector_type)

\* the stored credentials exist, can be read, and validate
StoredAndValid ==
    /\ DATABASE_URL
    /\ last.db = "up"
    /\ LastKey \in DOMAIN data_sources
    /\ \A cred \in Range(required_credentials(ClassOf(last.connector_type))) :
          cred \in DOMAIN data_sources[LastKey] /\ ~Falsy(data_sources[LastKey][cred])
    /\ last.api = "ok"

\* C15: get_connector on a cache hit returns the cached instance, reads no
\* stored credentials and probes nothing; on a miss it turns to the credential
\* store (read whenever DATABASE_URL is set) and returns a newly cached
\* instance built from the stored credentials if they exist and validate,
\* and otherwise returns absent and leaves the cache unchanged.
C15_GetConnectorHitAndMiss ==
    last.op = "get_connector" =>
        IF LastKey \in DOMAIN last.before
        THEN /\ last.found
             /\ last.inst = last.before[LastKey]
             /\ ~last.queried
             /\ ~last.probed
             /\ active_connectors = last.before
        ELSE /\ last.queried = DATABASE_URL
             /\ IF StoredAndValid
                THEN /\ last.found
                     /\ last.inst = [cls |-> CONNECTOR_REGISTRY[last.connector_type],
                                     company_id |-> last.company_id,
                                     credentials |-> data_sources[LastKey]]
                     /\ DOMAIN active_connectors = DOMAIN last.before \cup {LastKey}
                     /\ active_connectors[LastKey] = last.inst
                     /\ \A k \in DOMAIN last.before : active_connectors[k] = last.before[k]
                ELSE /\ ~last.found
                     /\ active_connectors = last.before

\* a miss that rebuilt the instance from the stored credentials, next to
\* another cached instance
C15_Witness ==
    /\ last.op = "get_connector"
    /\ LastKey \notin DOMAIN last.before
    /\ StoredAndValid
    /\ last.found
    /\ last.before # <<>>

\* C16: sync_all_connectors(tenant) returns a mapping whose keys are exactly
\* the connector types cached for the tenant when the call starts, each
\* mapped to the SyncResult of a full sync of that cached instance; it sends
\* nothing to the store on behalf of another tenant, and it caches nothing
\* (no connector is discovered from the credential store).
C16_SyncAllCoversTheTenantsCache ==
    last.op = "sync_all_connectors" =>
        /\ DOMAIN last.results =
              {t \in ConnectorTypes : connector_key(last.company_id, t) \in DOMAIN last.before}
        /\ \A t \in DOMAIN last.results :
              /\ last.results[t] =
                    full_sync(last.before[connector_key(last.company_id, t)], NoList,
                              last.outs[t], POSTGRES_AVAILABLE)
              /\ \A i \in DOMAIN last.results[t].ops :
                    last.results[t].ops[i].company_id = last.company_id
        /\ active_connectors = last.before

C16_Witness ==
    /\ last.op = "sync_all_connectors"
    /\ last.company_id = 1
    /\ DOMAIN last.results = {"salesforce"}
    /\ connector_key(11, "jira") \in DOMAIN last.before
    /\ connector_key(1, "jira") \in DOMAIN data_sources
    /\ last.results["salesforce"].ops # <<>>

-----------------------------------------------------------------------------
(* End to end: create_connector, then sync_connector of one table, with the
   records the API answers and the store that keeps columns and rows *)

\* SimpleBaseConnector.sync_table, given the records extract_data returned
sync_table_stored(inst, table_name, data, st, connect, pg) ==
    IF data = <<>> THEN [success |-> TRUE, records |-> 0, store |-> st]
    ELSE IF pg
    THEN LET l == PostgresLoader_load_data(st, postgres_table_name(inst.cls, table_name),
                      data, connector_name(inst.cls), inst.company_id, connect)
         IN  IF l.raised
             THEN [success |-> TRUE, records |-> Len(data), store |-> l.store]
             ELSE [success |-> TRUE, records |-> l.ret, store |-> l.store]
    ELSE [success |-> TRUE, records |-> Len(data), store |-> st]

\* SimpleConnectorManager.sync_connector(company_id, connector_type, [table_name])
sync_connector_stored(g, table_name, data, st, connect, pg) ==
    IF ~g.found
    THEN [result |-> SyncResult(FALSE, 0, <<>>, Message("Connector not found"), <<>>, <<>>),
          store |-> st]
    ELSE LET r == sync_table_stored(g.inst, table_name, data, st, connect, pg) IN
         [result |-> full_sync_result(
                        [total_records |-> IF r.success THEN r.records ELSE 0,
                         synced_tables |-> IF r.success THEN <<table_name>> ELSE <<>>,
                         failed_tables |-> IF r.success THEN <<>> ELSE <<table_name>>,
                         ops |-> <<>>, loader_calls |-> <<>>]),
          store |-> r.store]

InitEnd ==
    /\ active_connectors = <<>>
    /\ data_sources = <<>>
    /\ DATABASE_URL = TRUE
    /\ POSTGRES_AVAILABLE = TRUE
    /\ store = EmptyStore
    /\ last = NoCall
    /\ page = NoCall
    /\ inc = NoCall

\* manager.create_connector(connector_type, company_id, credentials)
EndCreateConnector ==
    /\ last = NoCall
    /\ \E connector_type \in RegisteredTypes, company_id \in Tenants :
       \E credentials \in TenantCredentials(connector_type),
          api \in ProbeOutcomes(ClassOf(connector_type)) :
           LET r == create_connector(active_connectors, connector_type, company_id,
                                     credentials, api, POSTGRES_AVAILABLE, DATABASE_URL)
           IN  /\ active_connectors' = r.cache
               /\ last' = [op |-> "create_connector", company_id |-> company_id,
                           connector_type |-> connector_type, raised |-> FALSE, ok |-> r.ok]
    /\ UNCHANGED <<data_sources, DATABASE_URL, POSTGRES_AVAILABLE, store, page, inc>>

\* manager.sync_connector(company_id, connector_type, [table_name]) while the
\* API answers the extraction with data
EndSyncConnector ==
    /\ last.op = "create_connector"
    /\ \E table_name \in TableNames(last.connector_type), data \in BatchInputs,
          connect \in {"ok", "refused"} :
          LET g == Get(last.company_id, last.connector_type, [db |-> "up", api |-> "ok"])
              r == sync_connector_stored(g, table_name, data, store, connect,
                                         POSTGRES_AVAILABLE)
          IN  /\ active_connectors' = g.cache
              /\ store' = r.store
              /\ last' = [op |-> "sync_connector", company_id |-> last.company_id,
                          connector_type |-> last.connector_type, raised |-> FALSE,
                          created |-> last.ok, table_name |-> table_name, data |-> data,
                          connect |-> connect, before |-> store, result |-> r.result]
    /\ UNCHANGED <<data_sources, DATABASE_URL, POSTGRES_AVAILABLE, page, inc>>

NextEnd ==
    \/ EndCreateConnector
    \/ EndSyncConnector

SpecEnd == InitEnd /\ [][NextEnd]_vars

\* the table the sync of the last step writes to
SyncTarget ==
    <<get_analytics_schema_name(last.company_id),
      <<connector_name(ClassOf(last.connector_type)), Lower(last.table_name)>>>>

\* C17: after create_connector succeeded, sync_connector(tenant, type, [T])
\* with the API answering n records and the store accepting the connection
\* returns success, records_synced = n and tables_synced = [T], and for
\* n >= 1 the store holds the table <connector_name>_<T> in lower case in the
\* tenant's schema with n new rows, each with loaded_at set, source_system
\* the connector's name and company_id the tenant.
C17_SyncAfterCreateStoresTheRecords ==
    (last.op = "sync_connector" /\ last.created /\ last.connect = "ok") =>
        /\ last.result.success
        /\ last.result.records_synced = Len(last.data)
        /\ last.result.tables_synced = <<last.table_name>>
        /\ last.data # <<>> =>
              /\ get_analytics_schema_name(last.company_id) \in store.schemas
              /\ SyncTarget \in DOMAIN store.tables
              /\ Len(store.tables[SyncTarget].rows) = Len(last.data)
              /\ \A i \in DOMAIN store.tables[SyncTarget].rows :
                    LET row == store.tables[SyncTarget].rows[i] IN
                    /\ ~row[LoadedAt].null
                    /\ row[SourceSystem] = SqlText(connector_name(ClassOf(last.connector_type)))
                    /\ row[CompanyId] = SqlInt(last.company_id)

-----------------------------------------------------------------------------
(* The request loops of the connectors against an API that is free to answer
   every request with a page that announces more, a last page, 401, or an
   error.  One action is one pass of a loop.  The counters count up to
   MaxRequests and stay there, and parity is the number of requests sent
   modulo 2, so that a loop that never ends is a cycle of distinct states *)

max_records == 2000
ZohoMaxRetries == 2

Responses == {"page_more", "page_last", "unauthorized", "error"}

Inc(n) == Min(n + 1, MaxRequests)

\* the state of one extraction: pages fetched, requests sent, refresh steps
\* taken since the last page was fetched, and the pages the caller is handed.
\* Salesforce, QuickBooks and Harvest authenticate first when they hold no
\* access token, and return [] when that fails
StartExtraction ==
    /\ page = NoCall
    /\ \E connector \in {"salesforce", "quickbooks", "zoho", "harvest"},
          access_token \in BOOLEAN, authenticated \in BOOLEAN :
          page' = [op |-> "extract", raised |-> FALSE, connector |-> connector,
                   access_token |-> access_token,
                   pc |-> IF connector # "zoho" /\ ~access_token /\ ~authenticated
                          THEN "done" ELSE "request",
                   pages |-> 0, requests |-> 0, parity |-> 0, refreshes |-> 0, attempt |-> 0,
                   kept |-> 0]
    /\ UNCHANGED <<active_connectors, data_sources, DATABASE_URL, POSTGRES_AVAILABLE,
                   store, last, inc>>

\* SimpleSalesforceConnector.make_soql_request: one pass of the while loop
\* (the access token is present); every page carries SalesforceBatch records
make_soql_request_pass(p, response, reauth) ==
    LET q == [p EXCEPT !.requests = Inc(@), !.parity = 1 - @] IN
    IF response = "unauthorized"
    THEN IF reauth THEN [q EXCEPT !.refreshes = Inc(@)]
         ELSE [q EXCEPT !.pc = "done", !.kept = p.pages]
    ELSE IF response = "error" THEN [q EXCEPT !.pc = "done", !.kept = 0]
    ELSE IF response = "page_last"
    THEN [q EXCEPT !.pages = Inc(@), !.refreshes = 0, !.pc = "done", !.kept = Inc(p.pages)]
    ELSE IF Inc(p.pages) * SalesforceBatch < max_records
    THEN [q EXCEPT !.pages = Inc(@), !.refreshes = 0]
    ELSE [q EXCEPT !.pages = Inc(@), !.refreshes = 0, !.pc = "done", !.kept = Inc(p.pages)]

\* SimpleQuickBooksConnector.make_query_request: one pass of the while loop;
\* a page that announces more is a full page of max_per_page records
make_query_request_pass(p, response, refreshed) ==
    LET q == [p EXCEPT !.requests = Inc(@), !.parity = 1 - @] IN
    IF response = "unauthorized"
    THEN IF refreshed THEN [q EXCEPT !.refreshes = Inc(@)]
         ELSE [q EXCEPT !.pc = "done", !.kept = p.pages]
    ELSE IF response = "error" THEN [q EXCEPT !.pc = "done", !.kept = 0]
    ELSE IF response = "page_last"
    THEN [q EXCEPT !.pages = Inc(@), !.refreshes = 0, !.pc = "done", !.kept = Inc(p.pages)]
    ELSE IF Inc(p.pages) * QuickBooksMaxPerPage < QuickBooksMaxResults
    THEN [q EXCEPT !.pages = Inc(@), !.refreshes = 0]
    ELSE [q EXCEPT !.pages = Inc(@), !.refreshes = 0, !.pc = "done", !.kept = Inc(p.pages)]

\* SimpleZohoConnector.make_api_request: one pass of the for loop over
\* attempt in range(max_retries + 1); one request, no pagination
make_api_request_pass(p, response, refreshed) ==
    LET q == [p EXCEPT !.requests = Inc(@), !.parity = 1 - @] IN
    IF response = "unauthorized" /\ p.attempt < ZohoMaxRetries
    THEN IF refreshed THEN [q EXCEPT !.refreshes = Inc(@), !.attempt = @ + 1]
         ELSE [q EXCEPT !.pc = "done", !.kept = 0]
    ELSE IF response \in {"unauthorized", "error"}
    THEN IF p.attempt = ZohoMaxRetries THEN [q EXCEPT !.pc = "done", !.kept = 0]
         ELSE [q EXCEPT !.attempt = @ + 1]
    ELSE [q EXCEPT !.pages = 1, !.pc = "done", !.kept = 1]

\* SimpleHarvestConnector.make_paginated_request: one pass of the while True
\* loop; a 401 is an error like any other
harvest_request_pass(p, response) ==
    LET q == [p EXCEPT !.requests = Inc(@), !.parity = 1 - @] IN
    IF response \in {"unauthorized", "error"} THEN [q EXCEPT !.pc = "done", !.kept = 0]
    ELSE IF response = "page_last"
    THEN [q EXCEPT !.pages = Inc(@), !.pc = "done", !.kept = Inc(p.pages)]
    ELSE [q EXCEPT !.pages = Inc(@)]

SalesforceRequest ==
    /\ page.op = "extract" /\ page.connector = "salesforce" /\ page.pc = "request"
    /\ \E response \in Responses, reauth \in BOOLEAN :
          page' = make_soql_request_pass(page, response, reauth)
    /\ UNCHANGED <<active_connectors, data_sources, DATABASE_URL, POSTGRES_AVAILABLE,
                   store, last, inc>>

QuickBooksRequest ==
    /\ page.op = "extract" /\ page.connector = "quickbooks" /\ page.pc = "request"
    /\ \E response \in Responses, refreshed \in BOOLEAN :
          page' = make_query_request_pass(page, response, refreshed)
    /\ UNCHANGED <<active_connectors, data_sources, DATABASE_URL, POSTGRES_AVAILABLE,
                   store, last, inc>>

ZohoRequest ==
    /\ page.op = "extract" /\ page.connector = "zoho" /\ page.pc = "request"
    /\ \E response \in Responses, refreshed \in BOOLEAN :
          page' = make_api_request_pass(page, response, refreshed)
    /\ UNCHANGED <<active_connectors, data_sources, DATABASE_URL, POSTGRES_AVAILABLE,
                   store, last, inc>>

HarvestRequest ==
    /\ page.op = "extract" /\ page.connector = "harvest" /\ page.pc = "request"
    /\ \E response \in Responses :
          page' = harvest_request_pass(page, response)
    /\ UNCHANGED <<active_connectors, data_sources, DATABASE_URL, POSTGRES_AVAILABLE,
                   store, last, inc>>

InitAuth ==
    /\ active_connectors = <<>>
    /\ data_sources = <<>>
    /\ DATABASE_URL = FALSE
    /\ POSTGRES_AVAILABLE = FALSE
    /\ store = EmptyStore
    /\ last = NoCall
    /\ page = NoCall
    /\ inc = NoCall

NextAuth ==
    \/ StartExtraction
    \/ SalesforceRequest
    \/ QuickBooksRequest
    \/ ZohoRequest
    \/ HarvestRequest

SpecAuth == InitAuth /\ [][NextAuth]_vars

\* the loops keep running: a pass that can be taken is taken
SpecAuthFair == SpecAuth /\ WF_vars(NextAuth)

\* C18: during one extraction request a 401 leads to the refresh or
\* re-authentication step at most once: after a request was retried once, a
\* second 401 ends the extraction of the table instead of refreshing again.
C18_RefreshAtMostOncePerRequest ==
    page.op = "extract" => page.refreshes <= 1

\* C19: extract_data terminates whatever the API answers, also when every
\* re-authentication succeeds and the next request is answered 401 again, and
\* when every page announces a further page.
C19_ExtractionTerminates ==
    (page.op = "extract") ~> (page.op = "extract" /\ page.pc = "done")

\* the pagination of the last step ended because request number fail_at
\* failed, after at least one page had been fetched
FailedAfterPages ==
    /\ page.op = "paginate"
    /\ page.pc = "done"
    /\ page.fail_at >= 2
    /\ page.requests = page.fail_at

\* C20: when a page fetch fails after k >= 1 pages were fetched, the
\* extraction of the table ends and returns the records of those k pages,
\* not an empty result.
C20_PartialResultsAreKept ==
    FailedAfterPages =>
        /\ page.all_results # <<>>
        /\ Count(page.all_results) = (page.fail_at - 1) * PageSize(page.paginator)

\* C30: for every non-empty batch the CREATE TABLE statement names each
\* column once, and its columns are the columns of the INSERT statement for
\* the same batch, also when a key normalizes to the name of a metadata
\* column or two keys normalize to the same name.
C30_CreateAndInsertColumnsAgree ==
    (last.op = "load" /\ last.statements # <<>>) =>
        LET ct == last.statements[1]
            ins == insert_statement(last.table_name, last.data, last.source_system,
                                    last.company_id)
            names == {ct.columns[i].name : i \in DOMAIN ct.columns}
        IN  /\ \A i, j \in DOMAIN ct.columns :
                  ct.columns[i].name = ct.columns[j].name => i = j
            /\ names = Range(ins.columns)

\* the batch of the last load has a key that is no column of the table the
\* store already holds
NewKeyOnExistingTable ==
    /\ last.op = "load"
    /\ last.data # <<>>
    /\ LoadTarget \in DOMAIN last.before.tables
    /\ ~(CleanKeys(last.data) \subseteq DOMAIN last.before.tables[LoadTarget].columns)

\* C27: load_data on an existing table never adds a column; when the batch
\* has a key whose normalized name is no column of the table, the columns of
\* the table stay as they were, no row is added, and load_data raises
\* instead of returning a count.
C27_ExistingTableKeepsItsColumns ==
    /\ (last.op = "load" /\ LoadTarget \in DOMAIN last.before.tables) =>
          /\ LoadTarget \in DOMAIN store.tables
          /\ store.tables[LoadTarget].columns = last.before.tables[LoadTarget].columns
    /\ NewKeyOnExistingTable =>
          /\ last.raised
          /\ store.tables[LoadTarget].rows = last.before.tables[LoadTarget].rows

C27_Witness ==
    /\ NewKeyOnExistingTable
    /\ last.connect = "ok"
    /\ last.raised
    /\ <<"d", "_", "n">> \in CleanKeys(last.data)
    /\ <<"d", "_", "n">> \notin DOMAIN store.tables[LoadTarget].columns

-----------------------------------------------------------------------------
(* What a call leaves alone: create_connector, test_connector and
   remove_connector on a cache whose instances can be told apart by their
   credentials.  Every step keeps the cache it started from in last.before *)

\* credentials a caller passes: two complete maps that differ, and one that
\* lacks the first required key
FrameCredentials(connector_type) ==
    LET req == required_credentials(ClassOf(connector_type)) IN
    {ValidCredentials(req), [k \in Range(req) |-> "w"], [k \in Range(req) \ {req[1]} |-> "v"]}

\* the tenant whose connectors the calls are about, and the credential stores
\* that hold rows of that tenant only
FrameTenants == {1}

FrameSources == {ds \in DataSourcesInputs : DOMAIN ds \subseteq FrameTenants \X RegisteredTypes}

InitFrame ==
    /\ active_connectors = <<>>
    /\ data_sources \in FrameSources
    /\ DATABASE_URL \in BOOLEAN
    /\ POSTGRES_AVAILABLE = DATABASE_URL
    /\ store = EmptyStore
    /\ last = NoCall
    /\ page = NoCall
    /\ inc = NoCall

\* manager.create_connector(connector_type, company_id, credentials)
FrameCreateConnector ==
    \E connector_type \in ConnectorTypes, company_id \in FrameTenants :
    \E credentials \in FrameCredentials(connector_type),
       api \in ProbeOutcomes(ClassOf(connector_type)) :
        LET r == create_connector(active_connectors, connector_type, company_id,
                                  credentials, api, POSTGRES_AVAILABLE, DATABASE_URL)
        IN  /\ active_connectors' = r.cache
            /\ last' = [op |-> "create_connector", company_id |-> company_id,
                        connector_type |-> connector_type, raised |-> FALSE,
                        credentials |-> credentials, api |-> api, ok |-> r.ok,
                        message |-> r.message, before |-> active_connectors]
            /\ UNCHANGED <<data_sources, DATABASE_URL, POSTGRES_AVAILABLE, store, page, inc>>

\* manager.test_connector(company_id, connector_type)
FrameTestConnector ==
    \E connector_type \in ConnectorTypes, company_id \in FrameTenants :
    \E e \in EnvInputs(connector_type) :
        LET g == Get(company_id, connector_type, e)
            r == test_connector(g, e.api)
        IN  /\ active_connectors' = g.cache
            /\ last' = [op |-> "test_connector", company_id |-> company_id,
                        connector_type |-> connector_type, raised |-> r.raised,
                        db |-> e.db, api |-> e.api, ok |-> r.ok, message |-> r.message,
                        before |-> active_connectors]
            /\ UNCHANGED <<data_sources, DATABASE_URL, POSTGRES_AVAILABLE, store, page, inc>>

\* manager.remove_connector(company_id, connector_type)
FrameRemoveConnector ==
    \E connector_type \in ConnectorTypes, company_id \in FrameTenants :
        LET r == remove_connector(active_connectors, company_id, connector_type)
        IN  /\ active_connectors' = r.cache
            /\ last' = [op |-> "remove_connector", company_id |-> company_id,
                        connector_type |-> connector_type, raised |-> FALSE, ret |-> r.ret,
                        before |-> active_connectors]
            /\ UNCHANGED <<data_sources, DATABASE_URL, POSTGRES_AVAILABLE, store, page, inc>>

NextFrame ==
    \/ FrameCreateConnector
    \/ FrameTestConnector
    \/ FrameRemoveConnector

SpecFrame == InitFrame /\ [][NextFrame]_vars

\* the cache after the last call holds every instance it held before
CachedInstancesKept ==
    \A k \in DOMAIN last.before :
        k \in DOMAIN active_connectors /\ active_connectors[k] = last.before[k]

\* what test_connector answers about a cached instance
ProbeAnswer ==
    IF last.api = "ok"
    THEN last.ok /\ last.message = Message("Connection test successful")
    ELSE ~last.ok /\ last.message = Message("Connection test failed")

----------------------------------------------------------------------------
(* One full_sync, statement by statement (SpecSteps): the for loop of
   full_sync calls sync_table for one table at a time; sync_table calls
   extract_data and then, for a non-empty list with the loader available,
   load_data.  last holds the frame of the running call: the list, the loop
   index, the position in sync_table, the extracted list, the accumulators
   and the trace of the calls made so far. *)

MaxStepTables == 2

\* one call of extract_data or load_data for tables[i]
Event(ev, i, table) == [ev |-> ev, i |-> i, table |-> table]

\* a loop that gives up the remaining tables after a table that failed
after_table_aborting(f, success, records) ==
    [f EXCEPT !.i = IF success THEN f.i + 1 ELSE Len(f.tables) + 1,
              !.pc = IF success /\ f.i < Len(f.tables) THEN "extract" ELSE "done",
              !.data = <<>>,
              !.total_records = IF success THEN @ + records ELSE @,
              !.synced_tables = IF success THEN Append(@, f.tables[f.i]) ELSE @,
              !.failed_tables = IF success THEN @ ELSE Append(@, f.tables[f.i])]

\* the body of the for loop after sync_table returned (success, records):
\* the accumulators are updated and the loop moves to the next table
after_table(f, success, records) ==
    [f EXCEPT !.i = f.i + 1,
              !.pc = IF f.i < Len(f.tables) THEN "extract" ELSE "done",
              !.data = <<>>,
              !.total_records = IF success THEN @ + records ELSE @,
              !.synced_tables = IF success THEN Append(@, f.tables[f.i]) ELSE @,
              !.failed_tables = IF success THEN @ ELSE Append(@, f.tables[f.i])]

InitSteps ==
    /\ \E connector_type \in RegisteredTypes :
           active_connectors = CacheWith(1, connector_type)
    /\ data_sources = <<>>
    /\ POSTGRES_AVAILABLE \in BOOLEAN
    /\ DATABASE_URL = POSTGRES_AVAILABLE
    /\ store = EmptyStore
    /\ last = NoCall
    /\ page = NoCall
    /\ inc = NoCall

\* full_sync is entered: the list of tables is fixed, the accumulators are empty
StepBegin ==
    /\ last = NoCall
    /\ \E key \in DOMAIN active_connectors :
       \E tables \in TablesInputs(key[2], MaxStepTables) :
           LET ts == Requested(key[2], tables) IN
           last' = [op |-> "full_sync", raised |-> FALSE, company_id |-> key[1],
                    connector_type |-> key[2], tables |-> ts, i |-> 1,
                    pc |-> IF ts = <<>> THEN "done" ELSE "extract",
                    data |-> <<>>, trace |-> <<>>, total_records |-> 0,
                    synced_tables |-> <<>>, failed_tables |-> <<>>]
    /\ UNCHANGED <<active_connectors, data_sources, DATABASE_URL, POSTGRES_AVAILABLE,
                   store, page, inc>>

\* sync_table up to the return of extract_data for tables[i]
StepExtract ==
    /\ last.op = "full_sync"
    /\ last.pc = "extract"
    /\ \E o \in EnvOutcomes(CONNECTOR_REGISTRY[last.connector_type]) :
           LET x == extract_data(CONNECTOR_REGISTRY[last.connector_type], o)
               f == [last EXCEPT !.trace = Append(@, Event("extract", last.i, last.tables[last.i]))]
           IN  last' = IF x.raised THEN after_table(f, FALSE, 0)
                       ELSE IF x.data = <<>> THEN after_table(f, TRUE, 0)
                       ELSE IF POSTGRES_AVAILABLE
                       THEN [f EXCEPT !.pc = "load", !.data = x.data]
                       ELSE after_table(f, TRUE, Len(x.data))
    /\ UNCHANGED <<active_connectors, data_sources, DATABASE_URL, POSTGRES_AVAILABLE,
                   store, page, inc>>

\* the rest of sync_table: load_data for the list just extracted
StepLoad ==
    /\ last.op = "full_sync"
    /\ last.pc = "load"
    /\ \E outcome \in LoadOutcomes :
           LET cls == CONNECTOR_REGISTRY[last.connector_type]
               l == load_data(postgres_table_name(cls, last.tables[last.i]), last.data,
                              connector_name(cls), last.company_id, outcome)
               f == [last EXCEPT !.trace = Append(@, Event("load", last.i, last.tables[last.i]))]
           IN  /\ store' = ApplyOps(store, l.ops)
               /\ last' = after_table(f, TRUE, IF l.raised THEN Len(last.data) ELSE l.ret)
    /\ UNCHANGED <<active_connectors, data_sources, DATABASE_URL, POSTGRES_AVAILABLE,
                   page, inc>>

NextSteps ==
    \/ StepBegin
    \/ StepExtract
    \/ StepLoad

SpecSteps == InitSteps /\ [][NextSteps]_vars

\* the positions of the trace at which ev was called for tables[j]
Calls(ev, j) == {p \in DOMAIN last.trace : last.trace[p].ev = ev /\ last.trace[p].i = j}

\* tables[j] has been handed to sync_table
Attempted(j) == j < last.i \/ (j = last.i /\ last.pc = "load")

\* C21: within one sync the tables are processed one at a time in the order
\* of the request: each requested table is attempted exactly once, its
\* extraction is over before its load starts, its load is over before the
\* extraction of the next table starts, and a table that failed does not
\* stop the tables after it from being attempted.
C21_TablesAreProcessedInOrder ==
    last.op = "full_sync" =>
        /\ \A p \in DOMAIN last.trace :
              /\ last.trace[p].i \in DOMAIN last.tables
              /\ last.trace[p].table = last.tables[last.trace[p].i]
              /\ last.trace[p].ev = "load" =>
                    p > 1 /\ last.trace[p - 1] =
                                Event("extract", last.trace[p].i, last.trace[p].table)
              /\ \A q \in DOMAIN last.trace :
                    (p < q /\ last.trace[q].ev = "extract") =>
                        last.trace[p].i < last.trace[q].i
        /\ \A j \in DOMAIN last.tables :
              /\ Cardinality(Calls("extract", j)) = IF Attempted(j) THEN 1 ELSE 0
              /\ Cardinality(Calls("load", j)) <= 1
              /\ (last.pc = "load" /\ j = last.i) => Calls("load", j) = {}
        /\ last.pc = "done" =>
              /\ last.i = Len(last.tables) + 1
              /\ \A j \in DOMAIN last.tables : Attempted(j)
              /\ Len(last.synced_tables) + Len(last.failed_tables) = Len(last.tables)

\* the first of two tables failed and the second was extracted and loaded
C21_Witness ==
    /\ last.op = "full_sync"
    /\ last.pc = "done"
    /\ Len(last.tables) = 2
    /\ last.failed_tables = <<last.tables[1]>>
    /\ last.trace = <<Event("extract", 1, last.tables[1]),
                      Event("extract", 2, last.tables[2]),
                      Event("load", 2, last.tables[2])>>

----------------------------------------------------------------------------
(* The safety caps of the extraction loops (SpecCap).  One action is one pass
   of a loop; the API chooses how many records the page carries.  last holds
   the running extraction: the records collected so far and, once the loop
   has returned, the length of the list handed to the caller. *)

ZohoMaxRecords == 200
ZohoPerPage == 200

\* page lengths the APIs answer with: Salesforce chooses the batch itself (up
\* to 2000 records), QuickBooks honours MAXRESULTS, Zoho honours per_page
SalesforcePageSizes == {0, 200, 500, 1500, 2000}
QuickBooksPageSizes == {0, 400, QuickBooksMaxPerPage}
ZohoPageSizes == {0, 50, ZohoPerPage}

Extraction(connector) ==
    [op |-> "extract", raised |-> FALSE, connector |-> connector, all_records |-> 0,
     pc |-> "loop", ret |-> 0, passes |-> 0]

Returned(f, n) == [f EXCEPT !.pc = "done", !.ret = n]

\* SimpleSalesforceConnector.make_soql_request: one evaluation of the while
\* condition and, if it holds, one pass with a page of n records
make_soql_request_page(f, n, more) ==
    IF ~(f.all_records < max_records) THEN Returned(f, f.all_records)
    ELSE LET g == [f EXCEPT !.all_records = @ + n, !.passes = Inc(@)] IN
         IF more THEN g ELSE Returned(g, g.all_records)

\* SimpleQuickBooksConnector.make_query_request
make_query_request_page(f, n) ==
    IF ~(f.all_records < QuickBooksMaxResults) THEN Returned(f, f.all_records)
    ELSE IF n = 0 THEN Returned(f, f.all_records)
    ELSE LET g == [f EXCEPT !.all_records = @ + n, !.passes = Inc(@)] IN
         IF n < QuickBooksMaxPerPage THEN Returned(g, g.all_records) ELSE g

\* SimpleZohoConnector.extract_crm_data: returns all_records[:max_records]
extract_crm_data_page(f, n) ==
    IF ~(f.all_records < ZohoMaxRecords)
    THEN Returned(f, Min(f.all_records, ZohoMaxRecords))
    ELSE IF n = 0 THEN Returned(f, Min(f.all_records, ZohoMaxRecords))
    ELSE LET g == [f EXCEPT !.all_records = @ + n, !.passes = Inc(@)] IN
         IF n < ZohoPerPage THEN Returned(g, Min(g.all_records, ZohoMaxRecords)) ELSE g

\* the cap each loop is written with
ExtractionCap(connector) ==
    IF connector = "salesforce" THEN max_records
    ELSE IF connector = "quickbooks" THEN QuickBooksMaxResults
    ELSE ZohoMaxRecords

InitCap ==
    /\ active_connectors = <<>>
    /\ data_sources = <<>>
    /\ DATABASE_URL \in BOOLEAN
    /\ POSTGRES_AVAILABLE = DATABASE_URL
    /\ store = EmptyStore
    /\ last \in {Extraction(c) : c \in {"salesforce", "quickbooks", "zoho"}}
    /\ page = NoCall
    /\ inc = NoCall

Running(connector) ==
    last.op = "extract" /\ last.connector = connector /\ last.pc = "loop"

CapFrame ==
    UNCHANGED <<active_connectors, data_sources, DATABASE_URL, POSTGRES_AVAILABLE,
                store, page, inc>>

CapSalesforcePage ==
    /\ Running("salesforce")
    /\ \E n \in SalesforcePageSizes, more \in BOOLEAN :
           last' = make_soql_request_page(last, n, more)
    /\ CapFrame

CapQuickBooksPage ==
    /\ Running("quickbooks")
    /\ \E n \in QuickBooksPageSizes : last' = make_query_request_page(last, n)
    /\ CapFrame

CapZohoPage ==
    /\ Running("zoho")
    /\ \E n \in ZohoPageSizes : last' = extract_crm_data_page(last, n)
    /\ CapFrame

NextCap ==
    \/ CapSalesforcePage
    \/ CapQuickBooksPage
    \/ CapZohoPage

SpecCap == InitCap /\ [][NextCap]_vars

\* C23: an extraction never returns more records than its safety cap
\* (Salesforce 2000, QuickBooks 1000, Zoho CRM 200), and reaching the cap is
\* a normal return.
C23_ExtractionStaysUnderItsCap ==
    (last.op = "extract" /\ last.pc = "done") =>
        /\ ~last.raised
        /\ last.ret <= ExtractionCap(last.connector)

----------------------------------------------------------------------------
(* Token refresh (SpecToken).  A QuickBooks or Zoho instance keeps the
   credentials map it was built from and copies of the two tokens in fields
   of its own; the credential store keeps the row the instance was built
   from.  last holds the instance, the instance and the store as they were
   before the last call, and what the call returned. *)

AccessTokens == {"a0", "a1", "a2"}
RefreshTokens == {"r0", "r1"}

\* the answers of the token endpoint: an error, or a body with or without
\* each of the two tokens
TokenResponses ==
    {[error |-> TRUE, access_token |-> None, refresh_token |-> None]}
    \cup {[error |-> FALSE, access_token |-> a, refresh_token |-> r] :
             a \in (AccessTokens \ {"a0"}) \cup {None},
             r \in (RefreshTokens \ {"r0"}) \cup {None}}

\* SimpleQuickBooksConnector.__init__ / SimpleZohoConnector.__init__
TokenConnector(cls, company_id, credentials) ==
    [cls |-> cls, company_id |-> company_id, credentials |-> credentials,
     access_token |-> credentials.access_token,
     refresh_token |-> credentials.refresh_token]

\* a refresh that also writes the new tokens into the credentials map
refresh_access_token_persisting(inst, response) ==
    IF response.error \/ response.access_token = None
    THEN [ok |-> FALSE, inst |-> inst]
    ELSE [ok |-> TRUE,
          inst |-> [inst EXCEPT !.access_token = response.access_token,
                                !.credentials.access_token = response.access_token]]

\* refresh_access_token of the two classes.  QuickBooks stores
\* token_data.get('access_token') whatever it is; Zoho reads
\* token_data['access_token'], and a body without it ends in the except branch
refresh_access_token(inst, response) ==
    IF response.error THEN [ok |-> FALSE, inst |-> inst]
    ELSE IF inst.cls = "SimpleZohoConnector" /\ response.access_token = None
    THEN [ok |-> FALSE, inst |-> inst]
    ELSE [ok |-> TRUE,
          inst |-> [inst EXCEPT !.access_token = response.access_token,
                                !.refresh_token = IF response.refresh_token # None
                                                  THEN response.refresh_token ELSE @]]

TokenClasses == [quickbooks |-> "SimpleQuickBooksConnector", zoho |-> "SimpleZohoConnector"]

InitToken ==
    /\ active_connectors = <<>>
    /\ \E t \in DOMAIN TokenClasses, a \in {"a0", None}, r \in RefreshTokens :
           /\ data_sources = [k \in {connector_key(1, t)} |->
                                 [access_token |-> a, refresh_token |-> r]]
           /\ last = [op |-> "construct", raised |-> FALSE, ok |-> TRUE,
                      connector_type |-> t, refreshed |-> FALSE,
                      inst |-> TokenConnector(TokenClasses[t], 1, data_sources[connector_key(1, t)]),
                      before |-> TokenConnector(TokenClasses[t], 1, data_sources[connector_key(1, t)]),
                      stored_before |-> data_sources]
    /\ DATABASE_URL = TRUE
    /\ POSTGRES_AVAILABLE = TRUE
    /\ store = EmptyStore
    /\ page = NoCall
    /\ inc = NoCall

TokenFrame ==
    UNCHANGED <<active_connectors, DATABASE_URL, POSTGRES_AVAILABLE, store, page, inc>>

\* the instance asks the token endpoint for a new access token
RefreshAccessToken ==
    /\ \E response \in TokenResponses :
           LET r == refresh_access_token(last.inst, response) IN
           last' = [last EXCEPT !.op = "refresh_access_token", !.ok = r.ok,
                                !.refreshed = @ \/ r.ok,
                                !.inst = r.inst, !.before = last.inst,
                                !.stored_before = data_sources]
    /\ UNCHANGED data_sources
    /\ TokenFrame

\* the instance is dropped and get_connector builds a new one from the row
\* of the credential store
Reconstruct ==
    /\ last.op = "refresh_access_token"
    /\ last' = [last EXCEPT !.op = "reconstruct", !.ok = TRUE,
                            !.inst = TokenConnector(last.inst.cls, last.inst.company_id,
                                        data_sources[connector_key(1, last.connector_type)]),
                            !.before = last.inst, !.stored_before = data_sources]
    /\ UNCHANGED data_sources
    /\ TokenFrame

NextToken ==
    \/ RefreshAccessToken
    \/ Reconstruct

SpecToken == InitToken /\ [][NextToken]_vars

----------------------------------------------------------------------------
(* Callers running concurrently against the one manager (SpecConc).  Every
   caller is a thread that is idle or inside sync_connector, in full_sync with
   left tables still to do, holding the instance get_connector handed to it.
   Python objects have identity: serial numbers the instances in the order
   they were built, serials gives the serial of each cached instance, and a
   thread keeps the serial of the instance it runs on.  The counter stops
   at MaxSerial. *)

MaxThreads == 2
MaxSerial == 3

Threads == 1..MaxThreads

Idle == [pc |-> "idle", key |-> <<>>, serial |-> 0, left |-> 0]

\* the threads inside sync_connector for key
InFlight(threads, key) ==
    {t \in DOMAIN threads : threads[t].pc = "syncing" /\ threads[t].key = key}

\* a manager that lets one sync at a time run for a (tenant, connector)
sync_connector_admits_one_at_a_time(threads, key) == InFlight(threads, key) = {}

\* sync_connector takes no lock and keeps no mark of a running sync: a call
\* goes on to get_connector and full_sync whatever is in flight
sync_connector_admits(threads, key) == TRUE

\* serials after an operation turned cache into new_cache; key is the only
\* entry the operation can have written, built tells whether it was
Renumber(serials, new_cache, key, built, next_serial) ==
    [k \in DOMAIN new_cache |-> IF k = key /\ built THEN next_serial ELSE serials[k]]

\* the tables every caller asks for: the first table of the connector
ConcRequest(connector_type) ==
    <<Head(default_objects(CONNECTOR_REGISTRY[connector_type]))>>

InitConc ==
    /\ active_connectors = <<>>
    /\ data_sources \in FrameSources
    /\ DATABASE_URL = TRUE
    /\ POSTGRES_AVAILABLE = TRUE
    /\ store = EmptyStore
    /\ last = [op |-> "concurrent", raised |-> FALSE, threads |-> [t \in Threads |-> Idle],
               serials |-> <<>>, next_serial |-> 1]
    /\ page = NoCall
    /\ inc = NoCall

ConcFrame ==
    UNCHANGED <<data_sources, DATABASE_URL, POSTGRES_AVAILABLE, store, page, inc>>

\* thread t calls sync_connector(company_id, connector_type): get_connector
\* and, with an instance, the entry into full_sync
ConcEnter(t, company_id, connector_type) ==
    LET key == connector_key(company_id, connector_type) IN
    /\ last.threads[t].pc = "idle"
    /\ sync_connector_admits(last.threads, key)
    /\ \E e \in EnvInputs(connector_type) :
           LET g == get_connector(active_connectors, data_sources, company_id,
                                  connector_type, e.db, e.api, POSTGRES_AVAILABLE, DATABASE_URL)
               built == g.found /\ ~g.hit
               s == Renumber(last.serials, g.cache, key, built, last.next_serial)
           IN  /\ active_connectors' = g.cache
               /\ last' = [last EXCEPT
                     !.threads[t] = IF g.found
                                    THEN [pc |-> "syncing", key |-> key, serial |-> s[key],
                                          left |-> Len(ConcRequest(connector_type))]
                                    ELSE Idle,
                     !.serials = s,
                     !.next_serial = IF built THEN Min(@ + 1, MaxSerial) ELSE @]
    /\ ConcFrame

\* thread t finishes one table; after the last one sync_connector returns
ConcTable(t) ==
    /\ last.threads[t].pc = "syncing"
    /\ last' = [last EXCEPT !.threads[t] =
                    IF last.threads[t].left > 1
                    THEN [last.threads[t] EXCEPT !.left = @ - 1]
                    ELSE Idle]
    /\ UNCHANGED active_connectors
    /\ ConcFrame

\* another caller creates a connector
ConcCreate(company_id, connector_type) ==
    LET key == connector_key(company_id, connector_type) IN
    /\ \E api \in ProbeOutcomes(ClassOf(connector_type)) :
           LET r == create_connector(active_connectors, connector_type, company_id,
                        ValidCredentials(required_credentials(ClassOf(connector_type))),
                        api, POSTGRES_AVAILABLE, DATABASE_URL)
           IN  /\ active_connectors' = r.cache
               /\ last' = [last EXCEPT
                     !.serials = Renumber(@, r.cache, key, r.ok, last.next_serial),
                     !.next_serial = IF r.ok THEN Min(@ + 1, MaxSerial) ELSE @]
    /\ ConcFrame

\* another caller removes a connector
ConcRemove(company_id, connector_type) ==
    LET r == remove_connector(active_connectors, company_id, connector_type) IN
    /\ active_connectors' = r.cache
    /\ last' = [last EXCEPT !.serials = [k \in DOMAIN r.cache |-> @[k]]]
    /\ ConcFrame

NextConc ==
    \/ \E t \in Threads, company_id \in FrameTenants, connector_type \in RegisteredTypes :
           ConcEnter(t, company_id, connector_type)
    \/ \E t \in Threads : ConcTable(t)
    \/ \E company_id \in FrameTenants, connector_type \in RegisteredTypes :
           ConcCreate(company_id, connector_type)
    \/ \E company_id \in FrameTenants, connector_type \in RegisteredTypes :
           ConcRemove(company_id, connector_type)

SpecConc == InitConc /\ [][NextConc]_vars

\* the instance create_connector caches for key from complete credentials
ValidCredentialsInstance(key) ==
    [cls |-> CONNECTOR_REGISTRY[key[2]], company_id |-> key[1],
     credentials |-> ValidCredentials(required_credentials(CONNECTOR_REGISTRY[key[2]]))]

\* C26: nothing keeps a second sync of a (tenant, connector) out while one
\* is in flight: an idle caller can always enter sync_connector for a cached
\* connector and then runs on the very instance the callers already inside
\* are using; and while syncs are in flight, create_connector and
\* remove_connector can still replace or drop the cached instance.
C26_NothingSerialisesSyncs ==
    last.op = "concurrent" =>
        \A key \in DOMAIN active_connectors :
            /\ \A t \in Threads :
                  last.threads[t].pc = "idle" =>
                      ENABLED (/\ ConcEnter(t, key[1], key[2])
                               /\ last'.threads[t].pc = "syncing"
                               /\ last'.threads[t].key = key
                               /\ last'.threads[t].serial = last.serials[key]
                               /\ InFlight(last'.threads, key) = InFlight(last.threads, key) \cup {t})
            /\ ENABLED (/\ ConcRemove(key[1], key[2])
                        /\ key \notin DOMAIN active_connectors'
                        /\ InFlight(last'.threads, key) = InFlight(last.threads, key))
            /\ ENABLED (/\ ConcCreate(key[1], key[2])
                        /\ active_connectors'[key] = ValidCredentialsInstance(key)
                        /\ InFlight(last'.threads, key) = InFlight(last.threads, key))

\* two callers are inside sync_connector on one instance, which has meanwhile
\* been removed from the cache
C26_Witness ==
    /\ last.op = "concurrent"
    /\ \E key \in FrameTenants \X RegisteredTypes :
          /\ InFlight(last.threads, key) = Threads
          /\ \A t \in Threads : last.threads[t].serial = last.threads[1].serial
          /\ last.threads[1].serial < MaxSerial
          /\ key \notin DOMAIN active_connectors

----------------------------------------------------------------------------
(* Incremental syncs of one table over time (SpecMark).  The clock now only
   moves forward.  store.source gives, for every source record, the time of
   its last modification (NoTime: the record does not exist yet); store.rows
   is the table in the store, each row with the modification time it was
   extracted with and the time it was stamped with at load.  A sync is two
   steps, the extraction and the load, and the source may change between
   them.  inc holds the frame of the sync: the connector, the list
   extracted, the cutoff the extraction used and the watermarks before and
   after. *)

MaxClock == 2
MaxMarkRows == 2

\* the value of a timestamp that is None
NoTime == 0 - 1

MarkIds == 1..MaxMarkRows

SetMax(S) == CHOOSE x \in S : \A y \in S : y <= x

\* BaseConnector.get_last_sync_timestamp: SELECT MAX(_saulto_extracted_at);
\* None, here NoTime, without rows (or without the table)
get_last_sync_timestamp(rows) ==
    IF rows = {} THEN NoTime ELSE SetMax({r.extracted_at : r \in rows})

\* the rows of the source that exist
SourceRecords(source) ==
    {[id |-> i, modified |-> source[i]] : i \in {j \in DOMAIN source : source[j] # NoTime}}

\* the cutoffs an extraction can use
NoCutoff == [kind |-> "none", at |-> 0, days |-> 0]
WatermarkCutoff(w) == [kind |-> "watermark", at |-> w, days |-> 0]
LookbackCutoff(days) == [kind |-> "lookback", at |-> 0, days |-> days]

\* SalesforceConnector.extract_data: with incremental and a last sync
\* timestamp the query gets WHERE LastModifiedDate > last_sync; otherwise it
\* has no time condition
SalesforceConnector_extract_data(source, rows, incremental) ==
    LET last_sync == get_last_sync_timestamp(rows) IN
    IF incremental /\ last_sync # NoTime
    THEN [cutoff |-> WatermarkCutoff(last_sync),
          df |-> {r \in SourceRecords(source) : r.modified > last_sync}]
    ELSE [cutoff |-> NoCutoff, df |-> SourceRecords(source)]

\* SimpleQuickBooksConnector.build_query / extract_data: with incremental the
\* condition is MetaData.LastUpdatedTime >= utcnow() - 30 days, whatever the
\* store holds; the clock of the model spans less than 30 days, so every
\* record satisfies it
SimpleQuickBooksConnector_extract_data(source, rows, incremental) ==
    [cutoff |-> IF incremental THEN LookbackCutoff(LookbackDays) ELSE NoCutoff,
     df |-> SourceRecords(source)]

\* BaseConnector.load_to_snowflake / PostgresLoader.load_data: every row is
\* stamped with utcnow() at load; if_exists = 'replace' overwrites the table
load_to_snowflake(rows, df, now, if_exists) ==
    (IF if_exists = "replace" THEN {} ELSE rows)
    \cup {[id |-> r.id, modified |-> r.modified, extracted_at |-> now] : r \in df}

MarkConnectors == {"salesforce", "quickbooks"}

InitMark ==
    /\ active_connectors = <<>>
    /\ data_sources = <<>>
    /\ DATABASE_URL = TRUE
    /\ POSTGRES_AVAILABLE = TRUE
    /\ store = [source |-> [i \in MarkIds |-> NoTime], rows |-> {}]
    /\ last = NoCall
    /\ page = NoCall
    /\ \E c \in MarkConnectors :
           inc = [op |-> "sync_table", raised |-> FALSE, connector |-> c, now |-> 0,
                  pc |-> "idle", incremental |-> TRUE, df |-> {}, cutoff |-> NoCutoff,
                  watermark |-> NoTime, extractions |-> 0, before |-> NoTime]

MarkFrame ==
    UNCHANGED <<active_connectors, data_sources, DATABASE_URL, POSTGRES_AVAILABLE,
                last, page>>

\* time passes
MarkTick ==
    /\ inc.now < MaxClock
    /\ inc' = [inc EXCEPT !.now = @ + 1]
    /\ UNCHANGED store
    /\ MarkFrame

\* the source system creates or modifies a record
MarkModify ==
    /\ \E i \in MarkIds :
           /\ store.source[i] # inc.now
           /\ store' = [store EXCEPT !.source[i] = inc.now]
    /\ UNCHANGED inc
    /\ MarkFrame

\* sync_table up to the return of extract_data; an empty result ends the call
MarkExtract ==
    /\ inc.pc = "idle"
    /\ \E incremental \in BOOLEAN :
           LET x == IF inc.connector = "salesforce"
                    THEN SalesforceConnector_extract_data(store.source, store.rows, incremental)
                    ELSE SimpleQuickBooksConnector_extract_data(store.source, store.rows, incremental)
           IN  inc' = [inc EXCEPT !.pc = IF x.df = {} THEN "idle" ELSE "loading",
                                  !.incremental = incremental,
                                  !.df = x.df, !.cutoff = x.cutoff,
                                  !.watermark = get_last_sync_timestamp(store.rows),
                                  !.before = get_last_sync_timestamp(store.rows),
                                  !.extractions = Min(@ + 1, 2)]
    /\ UNCHANGED store
    /\ MarkFrame

\* the rest of sync_table: the load, which succeeds or fails as a whole
MarkLoad ==
    /\ inc.pc = "loading"
    /\ \E ok \in BOOLEAN :
           LET rows == IF ok
                       THEN load_to_snowflake(store.rows, inc.df, inc.now,
                                IF inc.incremental THEN "append" ELSE "replace")
                       ELSE store.rows
           IN  /\ store' = [store EXCEPT !.rows = rows]
               /\ inc' = [inc EXCEPT !.pc = "idle", !.df = {},
                                     !.before = get_last_sync_timestamp(store.rows),
                                     !.watermark = get_last_sync_timestamp(rows)]
    /\ MarkFrame

NextMark ==
    \/ MarkTick
    \/ MarkModify
    \/ MarkExtract
    \/ MarkLoad

SpecMark == InitMark /\ [][NextMark]_vars

\* C22: with incremental true, the cutoff of the extraction is the watermark
\* persisted for the table when there is one, and a fixed 30-day lookback
\* when there is none.
C22_CutoffIsWatermarkOrLookback ==
    (inc.op = "sync_table" /\ inc.extractions > 0 /\ inc.pc = "loading" /\ inc.incremental) =>
        inc.cutoff = IF inc.before # NoTime THEN WatermarkCutoff(inc.before)
                     ELSE LookbackCutoff(LookbackDays)

\* the modifications of the source that no row of the store carries
Unloaded ==
    {r \in SourceRecords(store.source) :
        \A w \in store.rows : ~(w.id = r.id /\ w.modified = r.modified)}

\* C29: across the incremental syncs of a table that take the cutoff from
\* the store (max _saulto_extracted_at, filter modified > watermark), no
\* modification of the source is lost, that is, every modification the store
\* does not hold yet is still above the watermark and so is returned by a
\* later incremental extraction, and the watermark never decreases.
C29_NoModificationIsLost ==
    (inc.op = "sync_table" /\ inc.connector = "salesforce" /\ inc.pc = "idle") =>
        /\ \A r \in Unloaded : inc.watermark = NoTime \/ r.modified > get_last_sync_timestamp(store.rows)
        /\ inc.before <= inc.watermark

====
